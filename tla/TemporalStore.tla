--------------------------- MODULE TemporalStore ---------------------------
(***************************************************************************)
(* The temporal store of internal/store/store.go, as operators on its      *)
(* bbolt buckets.  A bucket is the set of the values it holds; every value *)
(* carries the field "at", its time, because the code derives the key of a *)
(* value from its timestamp alone (tsKey).  So a bucket never holds two    *)
(* values of one time, and the cursor order of a bucket is the order of    *)
(* the "at" fields.                                                        *)
(***************************************************************************)
EXTENDS Naturals

\* Faults: a bucket that keeps the last arrival only; a cursor at the wrong end.
PutOnly(bucket, rec) == {rec}
ReadFirst(bucket, none) ==
  IF bucket = {} THEN none
  ELSE CHOOSE rec \in bucket : \A other \in bucket : rec.at <= other.at

\* tx.Bucket.Put(tsKey(rec.Timestamp), rec): a value of the same time is
\* replaced.  This one operator is WriteState on a port bucket and WriteAlert
\* on the alerts bucket.
PutAt(bucket, rec) == {old \in bucket : old.at # rec.at} \cup {rec}

\* The record under the last key of a bucket.
IsLast(bucket, rec) == rec \in bucket /\ \A other \in bucket : other.at <= rec.at

\* Cursor().Last(): the record with the greatest key, or none.
ReadLatest(bucket, none) ==
  IF bucket = {} THEN none ELSE CHOOSE rec \in bucket : IsLast(bucket, rec)

\* ReadOpenPorts counts a port whose latest record has Open = true.
LatestIsOpen(bucket) == \E rec \in bucket : IsLast(bucket, rec) /\ rec.open

\* The bucket holds at most one value per key.
OnePerKey(bucket) == \A r, q \in bucket : r.at = q.at => r = q
=============================================================================
