--------------------------- MODULE AccountsProofs ---------------------------
(***************************************************************************)
(* No handler runs with a plan that is too old, and no password changes    *)
(* without a recent request for it, for any number of users, keys,         *)
(* requests and workers, every life of tokens and links and every length   *)
(* of the queue.                                                           *)
(***************************************************************************)
EXTENDS Accounts, TLAPS

\* A token's plan is the present one, or was lost so late that the token expires
\* within its life after that.
TokenInv(t) ==
  /\ Exists(t.user)
  /\ t.expires <= clock + TokenLife
  /\ \/ row[t.user].plan = t.plan
     \/ left[t.user][t.plan] # None /\ t.expires <= left[t.user][t.plan] + TokenLife

\* A link expires within its life after the last request for one.
LinkInv(l) ==
  /\ Exists(l.user) /\ asked[l.user] # None
  /\ asked[l.user] <= clock /\ l.expires <= asked[l.user] + LinkLife
MailInv(m) == m.link # None => LinkInv(m.link)
PostInv ==
  /\ \A i \in 1 .. Len(queue) : MailInv(queue[i])
  /\ \A w \in Worker : worker[w] # None => MailInv(worker[w])
  /\ \A l \in inbox : LinkInv(l)

KeyInv(k) == key[k].user # None => Exists(key[k].user)

\* What was read for a request is of this moment: time does not pass meanwhile.
WorkInv(r) ==
  /\ Exists(r.user)
  /\ r.step = "issue" => r.plan \in Plan /\ Had(r.user, r.plan, 1)
  /\ r.step = "serve" =>
       \/ r.by = "token" /\ r.plan \in Plan /\ Had(r.user, r.plan, TokenLife)
       \/ r.by = "token" /\ r.plan = NoPlan /\ Asked(r.user)
       \/ r.by = "key" /\ r.plan \in Plan /\ (r.plan = "free" \/ Had(r.user, r.plan, 1))

Inv ==
  /\ TypeOK
  /\ \A t \in tokens : TokenInv(t)
  /\ PostInv
  /\ \A k \in Key : KeyInv(k)
  /\ \A q \in Request : request[q] # None => WorkInv(request[q])

-----------------------------------------------------------------------------
LEMMA InitInv ==
  ASSUME Init PROVE Inv
  <1>1. TypeOK
    BY BoundAssumption DEF Init, TypeOK, Time
  <1>2. PostInv
    BY DEF Init, PostInv
  <1>3. \A k \in Key : KeyInv(k)
    BY DEF Init, KeyInv
  <1> QED BY <1>1, <1>2, <1>3 DEF Init, Inv

\* What holds of a token, a mail, a key and a request goes on to hold while time
\* stands still and the rows and requests for links stay as they are.
LEMMA StaysTrue ==
  ASSUME UNCHANGED <<clock, users, asked>>
  PROVE  /\ \A t : TokenInv(t) <=> TokenInv(t)'
         /\ \A l : LinkInv(l) <=> LinkInv(l)'
         /\ \A m : MailInv(m) <=> MailInv(m)'
         /\ \A r : WorkInv(r) <=> WorkInv(r)'
  BY DEF TokenInv, LinkInv, MailInv, WorkInv, Had, Asked, Exists, users

\* A request goes a step on, or ends.
LEMMA WorkStep ==
  ASSUME Inv, NEW q \in Request, NEW r \in Work \cup {None},
         request' = [request EXCEPT ![q] = r], r # None => WorkInv(r),
         UNCHANGED <<clock, users, key, inbox, mail, asked>>,
         tokens' \subseteq Token, \A t \in tokens' : TokenInv(t)
  PROVE  Inv'
  <1>1. TypeOK'
    BY DEF Inv, TypeOK, users, mail
  <1>2. PostInv' /\ \A k \in Key : KeyInv(k)'
    BY StaysTrue DEF Inv, PostInv, KeyInv, Exists, users, mail
  <1>3. \A p \in Request : request'[p] # None => WorkInv(request'[p])
    BY DEF Inv, TypeOK
  <1>4. \A p \in Request : request'[p] # None => WorkInv(request[p])'
    BY <1>3, StaysTrue DEF WorkInv, Had, Asked, Exists, users
  <1>5. \A t \in tokens' : TokenInv(t)'
    BY StaysTrue
  <1> QED BY <1>1, <1>2, <1>4, <1>5 DEF Inv

\* Whom the middlewares accept is a user, by a token that is right or by a link
\* whose life is not over.
LEMMA BearerHolds ==
  ASSUME Inv, NEW t \in Bearer
  PROVE  /\ t.user \in User /\ Exists(t.user)
         /\ \/ t \in tokens /\ t \in Token /\ TokenInv(t)
            \/ t.plan = NoPlan /\ (Valid(t) => Asked(t.user))
  <1>1. CASE t \in tokens
    BY <1>1 DEF Inv, TypeOK, Token, TokenInv
  <1>2. ASSUME NEW l \in inbox, t = [user |-> l.user, plan |-> NoPlan, expires |-> l.expires]
        PROVE  t.user \in User /\ Exists(t.user) /\ t.plan = NoPlan /\ (Valid(t) => Asked(t.user))
    <2>1. l \in Link /\ LinkInv(l) /\ l.user \in User
      BY DEF Inv, TypeOK, PostInv, Link
    <2>2. /\ clock \in Nat /\ l.expires \in Nat /\ LinkLife \in Nat /\ asked[l.user] \in Nat
      BY <2>1, LifeAssumption, BoundAssumption DEF Inv, TypeOK, Time, LinkInv, Link
    <2> QED BY <1>2, <2>1, <2>2 DEF LinkInv, Valid, Asked
  <1> QED BY <1>1, <1>2 DEF Bearer

LEMMA RequestSteps ==
  ASSUME Inv, NEW q \in Request,
         \/ \E u \in User, e \in Address, word \in Password : Login(q, u, e, word)
         \/ \E t \in Bearer : Refresh(q, t) \/ UseToken(q, t)
         \/ \E k \in Key : FindKey(q, k)
         \/ GenerateToken(q) \/ ReadPlan(q) \/ Serve(q)
  PROVE  Inv'
  <1>0. /\ tokens \subseteq Token /\ \A t \in tokens : TokenInv(t)
        /\ clock \in Nat /\ TokenLife \in Nat \ {0} /\ Time \subseteq Nat
        /\ \A u \in User : Exists(u) => row[u] \in Row /\ row[u].plan \in Plan
        /\ \A u \in User, p \in Plan : left[u][p] \in Nat \cup {None}
    BY LifeAssumption DEF Inv, TypeOK, Time, Exists, Row
  <1>1. ASSUME NEW step \in {"issue", "plan", "serve"}, NEW u \in User, NEW p \in Plan \cup {NoPlan},
               NEW by \in {"token", "key"},
               Do(q, step, u, p, by), UNCHANGED <<clock, users, key, tokens, inbox, mail, asked>>,
               WorkInv([step |-> step, user |-> u, plan |-> p, by |-> by])
        PROVE  Inv'
    <2> DEFINE r == [step |-> step, user |-> u, plan |-> p, by |-> by]
    <2>1. r \in Work /\ request' = [request EXCEPT ![q] = r] /\ WorkInv(r)
      BY <1>1 DEF Work, Do
    <2> HIDE DEF r
    <2> QED BY <1>0, <1>1, <2>1, WorkStep
  <1>2. ASSUME NEW u \in User, Exists(u) PROVE Had(u, row[u].plan, 1)
    BY DEF Had
  <1>3. ASSUME NEW u \in User, NEW e \in Address, NEW word \in Password, Login(q, u, e, word)
        PROVE  Inv'
    <2>1. WorkInv([step |-> "issue", user |-> u, plan |-> row[u].plan, by |-> "token"])
      BY <1>0, <1>2, <1>3 DEF Login, WorkInv
    <2> QED BY <1>0, <1>1, <1>3, <2>1 DEF Login
  <1>4. ASSUME NEW t \in Bearer, Refresh(q, t) PROVE Inv'
    <2>1. t.user \in User /\ Exists(t.user)
      BY BearerHolds
    <2>2. WorkInv([step |-> "issue", user |-> t.user, plan |-> row[t.user].plan, by |-> "token"])
      BY <1>0, <1>2, <2>1 DEF WorkInv
    <2> QED BY <1>0, <1>1, <1>4, <2>1, <2>2 DEF Refresh
  <1>5. ASSUME NEW t \in Bearer, UseToken(q, t) PROVE Inv'
    <2>1. t.user \in User /\ Exists(t.user) /\ Valid(t)
      BY <1>5, BearerHolds DEF UseToken
    <2>2. CASE t \in tokens /\ t \in Token /\ TokenInv(t)
      <3>1. t.plan \in Plan /\ t.expires \in Nat
        BY <2>2, BoundAssumption, LifeAssumption DEF Token, Time
      <3>2. Had(t.user, t.plan, TokenLife)
        BY <1>0, <2>1, <2>2, <3>1 DEF Valid, TokenInv, Had
      <3>3. WorkInv([step |-> "serve", user |-> t.user, plan |-> t.plan, by |-> "token"])
        BY <2>1, <3>1, <3>2 DEF WorkInv
      <3> QED BY <1>1, <1>5, <2>1, <3>1, <3>3 DEF UseToken
    <2>3. CASE t.plan = NoPlan /\ Asked(t.user)
      <3>1. WorkInv([step |-> "serve", user |-> t.user, plan |-> t.plan, by |-> "token"])
        BY <2>1, <2>3 DEF WorkInv
      <3> QED BY <1>1, <1>5, <2>1, <2>3, <3>1 DEF UseToken
    <2> QED BY <2>1, <2>2, <2>3, BearerHolds
  <1>6. ASSUME NEW k \in Key, FindKey(q, k) PROVE Inv'
    <2>1. key[k].user \in User /\ Exists(key[k].user)
      BY <1>6 DEF FindKey, Inv, TypeOK, KeyInv
    <2>2. WorkInv([step |-> "plan", user |-> key[k].user, plan |-> "free", by |-> "key"])
      BY <2>1 DEF WorkInv
    <2> QED BY <1>1, <1>6, <2>1, <2>2 DEF FindKey, Plan
  <1>7. CASE GenerateToken(q)
    <2> DEFINE t == [user |-> request[q].user, plan |-> request[q].plan,
                     expires |-> clock + TokenLife]
    <2>1. request[q] \in Work /\ request[q].step = "issue" /\ WorkInv(request[q])
      BY <1>7 DEF GenerateToken, Inv, TypeOK
    <2>2. request[q].user \in User /\ request[q].plan \in Plan
      BY <2>1 DEF Work, WorkInv
    <2>3. t \in Token
      BY <1>0, <2>2, BoundAssumption DEF Token, Inv, TypeOK, Time
    <2>4. TokenInv(t)
      BY <1>0, <2>1, <2>2 DEF TokenInv, WorkInv, Had
    <2>5. PICK kept \in SUBSET tokens : tokens' = kept \cup {t}
      BY <1>7 DEF GenerateToken
    <2> HIDE DEF t
    <2>6. tokens' \subseteq Token /\ \A x \in tokens' : TokenInv(x)
      BY <1>0, <2>3, <2>4, <2>5
    <2> QED BY <1>7, <2>6, WorkStep DEF GenerateToken, Done
  <1>8. CASE ReadPlan(q)
    <2>1. request[q] \in Work /\ WorkInv(request[q])
      BY <1>8 DEF ReadPlan, Inv, TypeOK
    <2>2. request[q].user \in User /\ Exists(request[q].user)
      BY <2>1 DEF Work, WorkInv
    <2>3. PICK p \in {row[request[q].user].plan, "free"} : Do(q, "serve", request[q].user, p, "key")
      BY <1>8 DEF ReadPlan
    <2>4. p \in Plan /\ (p = "free" \/ Had(request[q].user, p, 1))
      BY <1>0, <1>2, <2>2, <2>3 DEF Plan
    <2>5. WorkInv([step |-> "serve", user |-> request[q].user, plan |-> p, by |-> "key"])
      BY <2>2, <2>4 DEF WorkInv
    <2> QED BY <1>1, <1>8, <2>2, <2>3, <2>4, <2>5 DEF ReadPlan
  <1>9. CASE Serve(q)
    BY <1>0, <1>9, WorkStep DEF Serve, Done
  <1> QED BY <1>3, <1>4, <1>5, <1>6, <1>7, <1>8, <1>9

-----------------------------------------------------------------------------
(* The rows. *)

\* Rows appear and change, but nobody loses one, and what a user had is remembered:
\* tokens, links, mails and requests stay right.
LEMMA RowsChange ==
  ASSUME TypeOK, clock' = clock, asked' = asked,
         row' \in [User -> Row \cup {None}], left' \in [User -> [Plan -> Time \cup {None}]],
         \A u \in User : Exists(u) =>
           /\ row'[u] # None
           /\ \A p \in Plan :
                \/ left'[u][p] = left[u][p] /\ (row[u].plan = p => row'[u].plan = p)
                \/ left'[u][p] = clock
  PROVE  /\ \A t \in Token : TokenInv(t) => TokenInv(t)'
         /\ \A l \in Link : LinkInv(l) => LinkInv(l)'
         /\ \A r \in Work : WorkInv(r) => WorkInv(r)'
  <1>0. /\ clock \in Nat /\ TokenLife \in Nat \ {0} /\ None \notin Nat
        /\ \A u \in User, p \in Plan : left[u][p] \in Nat \cup {None}
    BY LifeAssumption, NoneAssumption DEF TypeOK, Time
  <1>1. ASSUME NEW t \in Token, TokenInv(t) PROVE TokenInv(t)'
    <2>1. t.user \in User /\ t.plan \in Plan /\ t.expires \in Nat
      BY LifeAssumption, BoundAssumption DEF Token, Time
    <2> QED BY <1>0, <1>1, <2>1 DEF TokenInv, Exists
  <1>2. ASSUME NEW l \in Link, LinkInv(l) PROVE LinkInv(l)'
    <2>1. l.user \in User
      BY DEF Link
    <2> QED BY <1>2, <2>1 DEF LinkInv, Exists
  <1>3. ASSUME NEW r \in Work, WorkInv(r) PROVE WorkInv(r)'
    <2>1. r.user \in User
      BY DEF Work
    <2>2. ASSUME NEW n \in Nat \ {0}, r.plan \in Plan, Had(r.user, r.plan, n), Exists(r.user)
          PROVE  Had(r.user, r.plan, n)'
      BY <1>0, <2>1, <2>2 DEF Had
    <2>3. Asked(r.user) => Asked(r.user)'
      BY DEF Asked
    <2> QED BY <1>0, <1>3, <2>1, <2>2, <2>3 DEF WorkInv, Exists
  <1> QED BY <1>1, <1>2, <1>3

\* The invariant over rows that changed so, when the rest is as it was, or a request
\* has been added.
LEMMA RowStep ==
  ASSUME Inv, clock' = clock, asked' = asked, UNCHANGED <<key, tokens, inbox>>,
         row' \in [User -> Row \cup {None}], left' \in [User -> [Plan -> Time \cup {None}]],
         \A u \in User : Exists(u) =>
           /\ row'[u] # None
           /\ \A p \in Plan :
                \/ left'[u][p] = left[u][p] /\ (row[u].plan = p => row'[u].plan = p)
                \/ left'[u][p] = clock,
         request' \in [Request -> Work \cup {None}],
         \A q \in Request : request'[q] = request[q] \/ WorkInv(request[q])',
         queue' \in Seq(Mail), UNCHANGED <<worker, stalled>>, written' \in 0 .. MaxMails,
         \A i \in 1 .. Len(queue') : queue'[i].link = None \/ \E j \in 1 .. Len(queue) : queue'[i] = queue[j]
  PROVE  Inv'
  <1>1. TypeOK'
    BY DEF Inv, TypeOK
  <1>2. /\ \A t \in Token : TokenInv(t) => TokenInv(t)'
        /\ \A l \in Link : LinkInv(l) => LinkInv(l)'
        /\ \A r \in Work : WorkInv(r) => WorkInv(r)'
    BY RowsChange DEF Inv
  <1>3. \A t \in tokens' : TokenInv(t)'
    BY <1>2 DEF Inv, TypeOK
  <1>4. PostInv'
    <2>1. \A m \in Mail : MailInv(m) => MailInv(m)'
      BY <1>2 DEF MailInv, Mail
    <2>2. ASSUME NEW i \in 1 .. Len(queue') PROVE MailInv(queue[i])'
      <3>1. PICK m \in Mail : m = queue'[i]
        OBVIOUS
      <3>2. CASE m.link = None
        BY <3>1, <3>2 DEF MailInv
      <3>3. CASE \E k \in 1 .. Len(queue) : m = queue[k]
        <4>1. MailInv(m)
          BY <3>3 DEF Inv, PostInv
        <4>2. MailInv(m)'
          BY <2>1, <4>1
        <4> QED BY <3>1, <4>2 DEF MailInv, LinkInv, Exists
      <3> QED BY <3>1, <3>2, <3>3
    <2>3. ASSUME NEW w \in Worker, worker'[w] # None PROVE MailInv(worker[w])'
      <3>1. PICK m \in Mail : m = worker[w]
        BY <2>3 DEF Inv, TypeOK
      <3>2. MailInv(m)
        BY <2>3, <3>1 DEF Inv, PostInv
      <3>3. MailInv(m)'
        BY <2>1, <3>2
      <3> QED BY <3>1, <3>3 DEF MailInv, LinkInv, Exists
    <2>4. \A l \in inbox' : LinkInv(l)'
      BY <1>2 DEF Inv, TypeOK, PostInv
    <2> QED BY <2>2, <2>3, <2>4 DEF PostInv, MailInv, LinkInv, Exists
  <1>5. \A k \in Key : KeyInv(k)'
    BY DEF Inv, TypeOK, KeyInv, Exists
  <1>6. ASSUME NEW q \in Request, request'[q] # None PROVE WorkInv(request[q])'
    <2>1. CASE request'[q] = request[q]
      <3>1. PICK r \in Work : r = request[q]
        BY <1>6, <2>1
      <3>2. WorkInv(r)
        BY <1>6, <2>1, <3>1 DEF Inv
      <3>3. WorkInv(r)'
        BY <1>2, <3>2
      <3> QED BY <2>1, <3>1, <3>3 DEF WorkInv, Had, Asked, Exists
    <2> QED BY <2>1
  <1> QED BY <1>1, <1>3, <1>4, <1>5, <1>6 DEF Inv

LEMMA SignupStep ==
  ASSUME Inv, NEW q \in Request, NEW u \in User, NEW e \in Address, NEW word \in Password,
         Signup(q, u, e, word)
  PROVE  Inv'
  <1> DEFINE new == [email |-> e, password |-> word, plan |-> "free"]
             r == [step |-> "issue", user |-> u, plan |-> "free", by |-> "token"]
  <1>1. new \in Row /\ new # None /\ r \in Work /\ new.plan = "free"
    BY NoneAssumption DEF Row, Work, Plan
  <1>2. /\ row' = [row EXCEPT ![u] = new] /\ request' = [request EXCEPT ![q] = r]
        /\ ~Exists(u) /\ UNCHANGED <<clock, left, key, tokens, inbox, queue, worker, stalled, written, asked>>
    BY DEF Signup, Do, mail
  <1>3. /\ r.user = u /\ r.step = "issue" /\ r.plan = "free"
    OBVIOUS
  <1> HIDE DEF new, r
  <1>4. row' \in [User -> Row \cup {None}] /\ request' \in [Request -> Work \cup {None}]
        /\ row'[u] = new /\ request'[q] = r
    BY <1>1, <1>2 DEF Inv, TypeOK
  <1>5. \A v \in User : Exists(v) => row'[v] = row[v] /\ row'[v] # None
    BY <1>2 DEF Exists, Inv, TypeOK
  <1>6. WorkInv(request[q])'
    BY <1>1, <1>3, <1>4 DEF WorkInv, Had, Exists, Plan
  <1>7. \A p \in Request : request'[p] = request[p] \/ WorkInv(request[p])'
    <2>1. ASSUME NEW p \in Request PROVE request'[p] = request[p] \/ WorkInv(request[p])'
      <3>1. CASE p = q
        BY <1>6, <3>1
      <3>2. CASE p # q
        BY <1>2, <3>2 DEF Inv, TypeOK
      <3> QED BY <3>1, <3>2
    <2> QED BY <2>1
  <1> QED BY <1>2, <1>4, <1>5, <1>7, RowStep DEF Inv, TypeOK

\* A mail behind the others, or dropped.
LEMMA WriteQueue ==
  ASSUME TypeOK, NEW link \in Link \cup {None}, Write(link)
  PROVE  /\ queue' \in Seq(Mail) /\ written' \in 0 .. MaxMails /\ UNCHANGED <<worker, stalled>>
         /\ \A i \in 1 .. Len(queue') :
              queue'[i].link = link \/ \E j \in 1 .. Len(queue) : queue'[i] = queue[j]
  <1> DEFINE m == [number |-> written + 1, link |-> link]
  <1>1. m \in Mail /\ m.link = link /\ written' \in 0 .. MaxMails
    BY BoundAssumption DEF Mail, Write, TypeOK
  <1>2. queue' = Append(queue, m) \/ queue' = queue
    BY DEF Write
  <1> HIDE DEF m
  <1> QED BY <1>1, <1>2 DEF TypeOK, Write

LEMMA ChangePlanStep ==
  ASSUME Inv, NEW u \in User, NEW p \in Plan, ChangePlan(u, p)
  PROVE  Inv'
  <1> DEFINE new == [row[u] EXCEPT !.plan = p]
             then == [left[u] EXCEPT ![row[u].plan] = clock]
  <1>1. /\ row[u] \in Row /\ row[u].plan \in Plan /\ clock \in Time
        /\ new \in Row /\ new # None /\ new.plan = p
        /\ then \in [Plan -> Time \cup {None}]
        /\ then[row[u].plan] = clock
        /\ \A o \in Plan \ {row[u].plan} : then[o] = left[u][o]
    BY NoneAssumption DEF ChangePlan, Exists, Inv, TypeOK, Row
  <1>2. /\ row' = [row EXCEPT ![u] = new] /\ left' = [left EXCEPT ![u] = then]
        /\ UNCHANGED <<clock, key, tokens, inbox, request, asked>>
    BY DEF ChangePlan
  <1> HIDE DEF new, then
  <1>3. /\ row' \in [User -> Row \cup {None}] /\ left' \in [User -> [Plan -> Time \cup {None}]]
        /\ \A v \in User : Exists(v) =>
           /\ row'[v] # None
           /\ \A o \in Plan :
                \/ left'[v][o] = left[v][o] /\ (row[v].plan = o => row'[v].plan = o)
                \/ left'[v][o] = clock
    BY <1>1, <1>2 DEF Inv, TypeOK, Exists
  <1>4. /\ queue' \in Seq(Mail) /\ UNCHANGED <<worker, stalled>> /\ written' \in 0 .. MaxMails
        /\ \A i \in 1 .. Len(queue') :
             queue'[i].link = None \/ \E j \in 1 .. Len(queue) : queue'[i] = queue[j]
    BY WriteQueue DEF ChangePlan, Inv, TypeOK, mail
  <1> QED BY <1>2, <1>3, <1>4, RowStep DEF Inv, TypeOK

LEMMA ResetStep ==
  ASSUME Inv, NEW l \in inbox, NEW word \in Password, Reset(l, word)
  PROVE  Inv'
  <1> DEFINE new == [row[l.user] EXCEPT !.password = word]
  <1>1. l.user \in User /\ Exists(l.user)
    BY DEF Inv, TypeOK, PostInv, LinkInv, Link
  <1>2. new \in Row /\ new # None /\ new.plan = row[l.user].plan
    <2>1. row[l.user] \in Row
      BY <1>1 DEF Exists, Inv, TypeOK
    <2>2. new \in Row /\ new.plan = row[l.user].plan
      BY <2>1 DEF Row
    <2> QED BY <2>2, NoneAssumption
  <1>3. /\ row' = [row EXCEPT ![l.user] = new]
        /\ UNCHANGED <<clock, left, key, tokens, inbox, queue, worker, stalled, written, request, asked>>
    BY DEF Reset, mail
  <1> HIDE DEF new
  <1>4. /\ row' \in [User -> Row \cup {None}]
        /\ \A v \in User : Exists(v) =>
             row'[v] # None /\ \A o \in Plan : row[v].plan = o => row'[v].plan = o
    BY <1>1, <1>2, <1>3 DEF Inv, TypeOK, Exists
  <1> QED BY <1>3, <1>4, RowStep DEF Inv, TypeOK

-----------------------------------------------------------------------------
(* Keys, mails and time. *)

LEMMA KeySteps ==
  ASSUME Inv, NEW t \in Bearer, NEW k \in Key, CreateAPIKey(t, k) \/ RevokeAPIKey(t, k)
  PROVE  Inv'
  <1>0. /\ t.user \in User /\ Exists(t.user)
        /\ UNCHANGED <<clock, users, tokens, inbox, mail, request, asked>>
    BY BearerHolds DEF CreateAPIKey, RevokeAPIKey
  <1>1. \/ key' = [key EXCEPT ![k] = [user |-> t.user, revoked |-> key[k].revoked]]
        \/ key' = [key EXCEPT ![k] = [user |-> key[k].user, revoked |-> TRUE]]
    BY DEF CreateAPIKey, RevokeAPIKey, Inv, TypeOK
  <1>2. key' \in [Key -> [user : User \cup {None}, revoked : BOOLEAN]]
    <2>1. key[k].user \in User \cup {None} /\ key[k].revoked \in BOOLEAN
      BY DEF Inv, TypeOK
    <2>2. /\ [user |-> t.user, revoked |-> key[k].revoked] \in [user : User \cup {None}, revoked : BOOLEAN]
          /\ [user |-> key[k].user, revoked |-> TRUE] \in [user : User \cup {None}, revoked : BOOLEAN]
      BY <1>0, <2>1
    <2> QED BY <1>1, <2>2 DEF Inv, TypeOK
  <1>3. \A o \in Key : key'[o].user = key[o].user \/ key'[o].user = t.user
    <2>1. key \in [Key -> [user : User \cup {None}, revoked : BOOLEAN]]
      BY DEF Inv, TypeOK
    <2> QED BY <1>1, <2>1
  <1>4. \A o \in Key : KeyInv(o)'
    BY <1>0, <1>3 DEF Inv, KeyInv, Exists, users
  <1>5. TypeOK'
    BY <1>0, <1>2 DEF Inv, TypeOK, users, mail
  <1>6. PostInv'
    BY <1>0, StaysTrue DEF Inv, PostInv, MailInv, LinkInv, Exists, users, mail
  <1>7. /\ \A x \in tokens' : TokenInv(x)'
        /\ \A q \in Request : request'[q] # None => WorkInv(request[q])'
    BY <1>0 DEF Inv, TokenInv, WorkInv, Had, Asked, Exists, users
  <1> QED BY <1>4, <1>5, <1>6, <1>7 DEF Inv

LEMMA ForgotStep ==
  ASSUME Inv, NEW u \in User, NEW e \in Address, Forgot(u, e)
  PROVE  Inv'
  <1>0. /\ clock \in Nat /\ clock \in Time /\ LinkLife \in Nat \ {0} /\ None \notin Nat
        /\ \A v \in User : asked[v] = None \/ (asked[v] \in Nat /\ asked[v] \in Time)
        /\ Exists(u) /\ asked' = [asked EXCEPT ![u] = clock]
        /\ UNCHANGED <<clock, users, key, tokens, inbox, request>>
    BY LifeAssumption, NoneAssumption DEF Forgot, Inv, TypeOK, Time
  <1>1. PICK new \in Link : new = [user |-> u, expires |-> clock + LinkLife]
    <2>1. clock + LinkLife \in LinkLife .. MaxTime + LinkLife
      BY <1>0, BoundAssumption DEF Time
    <2> QED BY <2>1 DEF Link
  <1>2. Write(new) /\ new.user = u /\ new.expires = clock + LinkLife
    BY <1>1 DEF Forgot
  <1>3. /\ queue' \in Seq(Mail) /\ written' \in 0 .. MaxMails /\ UNCHANGED <<worker, stalled>>
        /\ \A i \in 1 .. Len(queue') :
             queue'[i].link = new \/ \E j \in 1 .. Len(queue) : queue'[i] = queue[j]
    BY <1>2, WriteQueue DEF Inv
  <1>4. ASSUME NEW l \in Link, LinkInv(l) PROVE LinkInv(l)'
    <2>1. l.user \in User /\ l.expires \in Nat
      BY LifeAssumption, BoundAssumption DEF Link
    <2>2. asked'[l.user] = IF l.user = u THEN clock ELSE asked[l.user]
      BY <1>0, <2>1 DEF Inv, TypeOK
    <2> QED BY <1>0, <1>4, <2>1, <2>2 DEF LinkInv, Exists, users
  <1>5. LinkInv(new)'
    <2>1. asked'[u] = clock
      BY <1>0 DEF Inv, TypeOK
    <2> QED BY <1>0, <1>2, <2>1 DEF LinkInv, Exists, users
  <1>6. ASSUME NEW m \in Mail, MailInv(m) \/ m.link = new PROVE MailInv(m)'
    <2>1. m.link \in Link \cup {None}
      BY DEF Mail
    <2>2. CASE m.link = new
      BY <1>5, <2>2 DEF MailInv
    <2>3. CASE MailInv(m)
      BY <1>4, <2>1, <2>3 DEF MailInv
    <2> QED BY <1>6, <2>2, <2>3
  <1>7. PostInv'
    <2>1. ASSUME NEW i \in 1 .. Len(queue') PROVE MailInv(queue[i])'
      <3>1. PICK m \in Mail : m = queue'[i]
        BY <1>3
      <3>2. MailInv(m)'
        BY <1>3, <1>6, <3>1 DEF Inv, PostInv
      <3> QED BY <3>1, <3>2 DEF MailInv, LinkInv, Exists
    <2>2. ASSUME NEW w \in Worker, worker'[w] # None PROVE MailInv(worker[w])'
      <3>1. PICK m \in Mail : m = worker[w]
        BY <1>3, <2>2 DEF Inv, TypeOK
      <3>2. MailInv(m)'
        BY <1>3, <1>6, <2>2, <3>1 DEF Inv, PostInv
      <3> QED BY <1>3, <3>1, <3>2 DEF MailInv, LinkInv, Exists
    <2>3. \A l \in inbox' : LinkInv(l)'
      BY <1>0, <1>4 DEF Inv, TypeOK, PostInv
    <2> QED BY <2>1, <2>2, <2>3 DEF PostInv, MailInv, LinkInv, Exists
  <1>8. TypeOK'
    BY <1>0, <1>3 DEF Inv, TypeOK, users
  <1>9. \A x \in tokens' : TokenInv(x)'
    BY <1>0 DEF Inv, TokenInv, Exists, users
  <1>10. \A k \in Key : KeyInv(k)'
    BY <1>0 DEF Inv, KeyInv, Exists, users
  <1>11. ASSUME NEW q \in Request, request'[q] # None PROVE WorkInv(request[q])'
    <2>1. request'[q] = request[q] /\ WorkInv(request[q]) /\ request[q].user \in User
      BY <1>0, <1>11 DEF Inv, TypeOK, Work
    <2>2. Asked(request[q].user) => Asked(request[q].user)'
      BY <1>0, <2>1 DEF Asked, Inv, TypeOK
    <2> QED BY <1>0, <2>1, <2>2 DEF WorkInv, Had, Exists, users
  <1> QED BY <1>7, <1>8, <1>9, <1>10, <1>11 DEF Inv

\* Steps that only take or send mails, or drop them.
LEMMA MailStep ==
  ASSUME Inv, UNCHANGED <<clock, users, key, tokens, asked>>, TypeOK',
         \A q \in Request : request'[q] = None \/ request'[q] = request[q],
         \A i \in 1 .. Len(queue') : \E j \in 1 .. Len(queue) : queue'[i] = queue[j],
         \A w \in Worker : \/ worker'[w] = None \/ worker'[w] = worker[w]
                           \/ \E j \in 1 .. Len(queue) : worker'[w] = queue[j],
         \A l \in inbox' : l \in inbox \/ \E w \in Worker : worker[w] # None /\ worker[w].link = l
  PROVE  Inv'
  <1>1. ASSUME NEW m, MailInv(m) PROVE MailInv(m)'
    BY <1>1, StaysTrue
  <1>2. ASSUME NEW i \in 1 .. Len(queue') PROVE MailInv(queue[i])'
    <2>1. PICK j \in 1 .. Len(queue) : queue'[i] = queue[j]
      OBVIOUS
    <2>2. MailInv(queue[j])
      BY DEF Inv, PostInv
    <2> QED BY <2>1, <2>2 DEF MailInv, LinkInv, Exists, users
  <1>3. ASSUME NEW w \in Worker, worker'[w] # None PROVE MailInv(worker[w])'
    <2>1. CASE worker'[w] = worker[w]
      <3>1. MailInv(worker[w])
        BY <1>3, <2>1 DEF Inv, PostInv
      <3> QED BY <2>1, <3>1 DEF MailInv, LinkInv, Exists, users
    <2>2. ASSUME NEW j \in 1 .. Len(queue), worker'[w] = queue[j] PROVE MailInv(worker[w])'
      <3>1. MailInv(queue[j])
        BY DEF Inv, PostInv
      <3> QED BY <2>2, <3>1 DEF MailInv, LinkInv, Exists, users
    <2> QED BY <1>3, <2>1, <2>2
  <1>4. ASSUME NEW l \in inbox' PROVE LinkInv(l)'
    <2>1. LinkInv(l)
      <3>1. CASE l \in inbox
        BY <3>1 DEF Inv, PostInv
      <3>2. ASSUME NEW w \in Worker, worker[w] # None, worker[w].link = l PROVE LinkInv(l)
        <4>1. l # None
          BY NoneAssumption DEF TypeOK
        <4> QED BY <3>2, <4>1 DEF Inv, PostInv, MailInv
      <3> QED BY <3>1, <3>2
    <2> QED BY <2>1, StaysTrue
  <1>5. PostInv'
    BY <1>2, <1>3, <1>4 DEF PostInv, MailInv, LinkInv, Exists
  <1>6. \A x \in tokens' : TokenInv(x)'
    BY DEF Inv, TokenInv, Exists, users
  <1>7. \A k \in Key : KeyInv(k)'
    BY DEF Inv, KeyInv, Exists, users
  <1>8. ASSUME NEW q \in Request, request'[q] # None PROVE WorkInv(request[q])'
    <2>1. request'[q] = request[q] /\ WorkInv(request[q])
      BY <1>8 DEF Inv
    <2> QED BY <2>1 DEF WorkInv, Had, Asked, Exists, users
  <1> QED BY <1>5, <1>6, <1>7, <1>8 DEF Inv

LEMMA MailSteps ==
  ASSUME Inv, (\E w \in Worker : TakeMail(w) \/ SendMail(w) \/ Stall(w)) \/ Restart
  PROVE  Inv'
  <1>1. ASSUME NEW w \in Worker, TakeMail(w) PROVE Inv'
    <2>1. /\ queue # <<>> /\ queue \in Seq(Mail) /\ Head(queue) \in Mail
          /\ Head(queue) = queue[1] /\ 1 \in 1 .. Len(queue)
          /\ Tail(queue) \in Seq(Mail) /\ Len(Tail(queue)) = Len(queue) - 1
          /\ \A i \in 1 .. Len(Tail(queue)) : Tail(queue)[i] = queue[i + 1] /\ i + 1 \in 1 .. Len(queue)
      BY <1>1 DEF TakeMail, Inv, TypeOK
    <2>2. /\ queue' = Tail(queue) /\ worker' = [worker EXCEPT ![w] = Head(queue)]
          /\ UNCHANGED <<clock, users, key, tokens, inbox, stalled, written, request, asked>>
      BY <1>1 DEF TakeMail
    <2>3. TypeOK'
      BY <2>1, <2>2 DEF Inv, TypeOK, users
    <2>4. \A v \in Worker : worker'[v] = worker[v] \/ worker'[v] = queue[1]
      BY <2>1, <2>2 DEF Inv, TypeOK
    <2> QED BY <2>1, <2>2, <2>3, <2>4, MailStep
  <1>2. ASSUME NEW w \in Worker, SendMail(w) PROVE Inv'
    <2>1. /\ inbox' \subseteq inbox \cup ({worker[w].link} \ {None}) /\ worker[w] # None
          /\ worker' = [worker EXCEPT ![w] = None] /\ stalled' = stalled \ {w}
          /\ UNCHANGED <<clock, users, key, tokens, queue, written, request, asked>>
      BY <1>2 DEF SendMail
    <2>2. worker[w] \in Mail /\ worker[w].link \in Link \cup {None}
      BY <2>1 DEF Inv, TypeOK, Mail
    <2>3. TypeOK'
      BY <2>1, <2>2 DEF Inv, TypeOK, users
    <2>4. \A v \in Worker : worker'[v] = None \/ worker'[v] = worker[v]
      BY <2>1 DEF Inv, TypeOK
    <2> QED BY <2>1, <2>3, <2>4, MailStep
  <1>3. CASE Restart
    <2>1. TypeOK'
      BY <1>3 DEF Restart, Inv, TypeOK, users
    <2> QED BY <1>3, <2>1, MailStep DEF Restart
  <1>4. ASSUME NEW w \in Worker, Stall(w) PROVE Inv'
    <2>1. TypeOK'
      BY <1>4 DEF Stall, Inv, TypeOK, users
    <2> QED BY <1>4, <2>1, MailStep DEF Stall
  <1> QED BY <1>1, <1>2, <1>3, <1>4

LEMMA TickStep ==
  ASSUME Inv, Tick PROVE Inv'
  <1>0. /\ clock \in Nat /\ clock' = clock + 1 /\ TokenLife \in Nat /\ LinkLife \in Nat
        /\ tokens' \subseteq tokens /\ \A q \in Request : request[q] = None
        /\ UNCHANGED <<users, key, inbox, mail, request, asked>>
    BY LifeAssumption DEF Tick, Inv, TypeOK, Time
  <1>1. TypeOK'
    BY <1>0, BoundAssumption DEF Tick, Inv, TypeOK, Time, users, mail
  <1>2. ASSUME NEW t \in Token, TokenInv(t) PROVE TokenInv(t)'
    <2>1. t.expires \in Nat
      BY LifeAssumption, BoundAssumption DEF Token, Time
    <2> QED BY <1>0, <1>2, <2>1 DEF TokenInv, Exists, users
  <1>3. ASSUME NEW l \in Link, LinkInv(l) PROVE LinkInv(l)'
    <2>1. asked[l.user] \in Nat
      BY <1>3 DEF LinkInv, Inv, TypeOK, Link, Time
    <2> QED BY <1>0, <1>3, <2>1 DEF LinkInv, Exists, users
  <1>4. ASSUME NEW m \in Mail, MailInv(m) PROVE MailInv(m)'
    <2>1. m.link \in Link \cup {None}
      BY DEF Mail
    <2>2. m.link # None => LinkInv(m.link)'
      BY <1>3, <1>4, <2>1 DEF MailInv
    <2> QED BY <2>2 DEF MailInv
  <1>5. PostInv'
    <2>1. ASSUME NEW i \in 1 .. Len(queue') PROVE MailInv(queue[i])'
      <3>1. PICK m \in Mail : m = queue[i]
        BY <1>0 DEF Inv, TypeOK, mail
      <3>2. MailInv(m)'
        BY <1>0, <1>4, <3>1 DEF Inv, PostInv, mail
      <3> QED BY <1>0, <3>1, <3>2 DEF MailInv, LinkInv, Exists, mail
    <2>2. ASSUME NEW w \in Worker, worker'[w] # None PROVE MailInv(worker[w])'
      <3>1. PICK m \in Mail : m = worker[w]
        BY <1>0, <2>2 DEF Inv, TypeOK, mail
      <3>2. MailInv(m)'
        BY <1>0, <1>4, <2>2, <3>1 DEF Inv, PostInv, mail
      <3> QED BY <1>0, <3>1, <3>2 DEF MailInv, LinkInv, Exists, mail
    <2>3. \A l \in inbox' : LinkInv(l)'
      BY <1>0, <1>3 DEF Inv, TypeOK, PostInv
    <2> QED BY <2>1, <2>2, <2>3 DEF PostInv, MailInv, LinkInv, Exists
  <1>6. \A t \in tokens' : TokenInv(t)'
    BY <1>0, <1>2 DEF Inv, TypeOK
  <1>7. \A k \in Key : KeyInv(k)'
    BY <1>0 DEF Inv, KeyInv, Exists, users
  <1> QED BY <1>0, <1>1, <1>5, <1>6, <1>7 DEF Inv

-----------------------------------------------------------------------------
LEMMA NextInv ==
  ASSUME Inv, [Next]_vars PROVE Inv'
  <1>1. CASE UNCHANGED vars
    BY <1>1 DEF vars, Inv, TypeOK, PostInv, KeyInv, TokenInv, MailInv, LinkInv, WorkInv, Had,
                Asked, Exists, users, mail
  <1> QED BY <1>1, TickStep, MailSteps, SignupStep, RequestSteps, ChangePlanStep, ForgotStep,
             KeySteps, ResetStep DEF Next

\* What every reachable state satisfies.
LEMMA AccountsInvariant == Spec => []Inv
  <1>1. Init => Inv
    BY InitInv
  <1>2. Inv /\ [Next]_vars => Inv'
    BY NextInv
  <1> QED BY <1>1, <1>2, PTL DEF Spec

\* Every reachable state is well typed; a token, a key and a link always have a user.
THEOREM AccountTypes == Spec => []TypeOK
  <1>1. Inv => TypeOK
    BY DEF Inv
  <1> QED BY <1>1, AccountsInvariant, PTL

\* However often tokens are refreshed and plans change: no handler runs with a plan
\* that its user lost longer ago than a token lives, and one runs without a plan only
\* within the life of a link that its user asked for.
THEOREM RecentPlan == Spec => []PlanIsRecent
  <1>1. NoPlan \notin Plan
    BY DEF NoPlan, Plan
  <1>2. Inv => PlanIsRecent
    BY <1>1 DEF Inv, WorkInv, PlanIsRecent
  <1> QED BY <1>2, AccountsInvariant, PTL

\* However long mails wait: a password only changes within the life of a link after
\* the last request for one.
THEOREM ResetsFollowForgot == Spec => ChangesFollowForgot
  <1>1. ASSUME Inv, [Next]_vars, NEW u \in User, Exists(u),
               row'[u].password # row[u].password
        PROVE  Asked(u)
    <2>1. PICK l \in inbox, word \in Password : Reset(l, word)
      <3>1. ASSUME NEW q \in Request, NEW v \in User, NEW e \in Address, NEW word \in Password
            PROVE  ~Signup(q, v, e, word)
        BY <1>1 DEF Signup, Inv, TypeOK
      <3>2. ASSUME NEW v \in User, NEW p \in Plan PROVE ~ChangePlan(v, p)
        <4>1. ASSUME ChangePlan(v, p) PROVE FALSE
          <5>1. row[u] \in Row /\ row' = [row EXCEPT ![v] = [row[v] EXCEPT !.plan = p]]
            BY <1>1, <4>1 DEF ChangePlan, Inv, TypeOK, Exists
          <5>2. [row[u] EXCEPT !.plan = p].password = row[u].password
            BY <5>1 DEF Row
          <5>3. row'[u] = row[u] \/ row'[u] = [row[u] EXCEPT !.plan = p]
            BY <1>1, <5>1 DEF Inv, TypeOK
          <5> QED BY <1>1, <5>2, <5>3
        <4> QED BY <4>1
      <3>3. ~UNCHANGED row
        BY <1>1
      <3> QED BY <1>1, <3>1, <3>2, <3>3
          DEF Next, vars, users, Tick, Restart, Login, Refresh, UseToken, GenerateToken, FindKey,
              ReadPlan, Serve, Forgot, CreateAPIKey, RevokeAPIKey, TakeMail, SendMail, Stall
    <2>2. l.user = u
      BY <1>1, <2>1 DEF Reset, Inv, TypeOK
    <2>3. clock < l.expires /\ LinkInv(l)
      BY <1>1, <2>1 DEF Reset, Valid, Inv, PostInv
    <2>4. clock \in Nat /\ l.expires \in Nat /\ asked[u] \in Nat /\ LinkLife \in Nat
      BY <1>1, <2>2, <2>3, LifeAssumption, BoundAssumption DEF Inv, TypeOK, Time, LinkInv, Link
    <2> QED BY <2>2, <2>3, <2>4 DEF LinkInv, Asked
  <1>2. Inv /\ [Next]_vars =>
          [\A u \in User : Exists(u) /\ row'[u].password # row[u].password =>
             Asked(u)]_vars
    BY <1>1
  <1> QED BY <1>2, AccountsInvariant, PTL DEF Spec, ChangesFollowForgot
=============================================================================
