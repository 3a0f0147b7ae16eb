------------------------------ MODULE Accounts ------------------------------
(***************************************************************************)
(* Accounts: sign-up, login, tokens, password reset (internal/auth), API   *)
(* keys (internal/apikey), the checks before a handler runs and the mail   *)
(* queue (internal/mail).  The plan of a user is changed by billing.       *)
(*                                                                         *)
(* A token carries the plan that was read when it was made, and a reset    *)
(* link goes through a bounded queue that several workers empty, as long   *)
(* as the mail server answers them.  A session is asked for by a signed    *)
(* token that has not expired: that of a link passes too, without a plan.  *)
(* A request that reads a row and acts on it later does so in two steps; one *)
(* that fails or is refused without effect is no step at all.  A request   *)
(* takes far less than a unit of time.                                     *)
(***************************************************************************)
EXTENDS Naturals, Sequences, FiniteSets

CONSTANTS
  User, Key, Request, Worker,
  Address,     \* e-mail addresses as they are typed
  Lower,       \* Lower[e]: e in lower case, without the spaces around it
  Password,
  None,
  TokenLife,   \* 24 hours
  LinkLife,    \* 30 minutes
  QueueCap,    \* 1000 mails
  MaxTime,     \* the bound of the clock
  MaxTokens,   \* the bound of the tokens that clients keep
  MaxMails     \* the bound of the mails written

ASSUME LowerAssumption == Lower \in [Address -> Address]
ASSUME LifeAssumption == TokenLife \in Nat \ {0} /\ LinkLife \in Nat \ {0}
ASSUME BoundAssumption == QueueCap \in Nat /\ MaxTime \in Nat /\ MaxTokens \in Nat /\ MaxMails \in Nat

Plan == {"free", "pro"}
NoPlan == ""   \* the plan of a token that has none
Time == 0 .. MaxTime
Row == [email : Address, password : Password, plan : Plan]
Token == [user : User, plan : Plan, expires : Time \cup (TokenLife .. MaxTime + TokenLife)]
Link == [user : User, expires : LinkLife .. MaxTime + LinkLife]
Mail == [number : 1 .. MaxMails, link : Link \cup {None}]
\* A request under way: issue a token, read the plan of a key's user, or be served.
Work == [step : {"issue", "plan", "serve"}, user : User, plan : Plan \cup {NoPlan},
         by : {"token", "key"}]

ASSUME NoneAssumption == None \notin Row \cup Link \cup Mail \cup Work \cup User \cup Nat

VARIABLES
  clock,
  row,       \* row[u]: the row of users, or None
  key,       \* key[k]: the owner of an API key (None before it is made), and whether it is revoked
  tokens,    \* the JWTs that clients keep and that have not expired
  inbox,     \* the reset links that were delivered
  queue,     \* the channel jobs
  worker,    \* worker[w]: the mail being sent, or None
  stalled,   \* the workers whose mail server does not answer
  written,   \* the number of mails written
  request,   \* request[q]: what is under way, or None
  left,      \* left[u][p]: when u last lost the plan p, or None (not in the program)
  asked      \* asked[u]: when a reset was last asked for, or None (not in the program)

users == <<row, left>>
mail == <<queue, worker, stalled, written>>
vars == <<clock, users, key, tokens, inbox, mail, request, asked>>

Init ==
  /\ clock = 0
  /\ row = [u \in User |-> None]
  /\ key = [k \in Key |-> [user |-> None, revoked |-> FALSE]]
  /\ tokens = {} /\ inbox = {}
  /\ queue = <<>> /\ worker = [w \in Worker |-> None] /\ stalled = {} /\ written = 0
  /\ request = [q \in Request |-> None]
  /\ left = [u \in User |-> [p \in Plan |-> None]]
  /\ asked = [u \in User |-> None]

Exists(u) == row[u] # None
Valid(t) == clock < t.expires

\* What the middlewares parse as the claims of a session: the tokens, and the links,
\* whose token has the same key and user, and no plan.
Bearer == tokens \cup {[user |-> l.user, plan |-> NoPlan, expires |-> l.expires] : l \in inbox}

\* Clients throw expired tokens away; nothing accepts them.
Tick ==
  /\ clock < MaxTime /\ \A q \in Request : request[q] = None
  /\ clock' = clock + 1
  /\ tokens' = {t \in tokens : clock + 1 < t.expires}
  /\ UNCHANGED <<users, key, inbox, mail, request, asked>>

Do(q, step, user, plan, by) ==
  request' = [request EXCEPT ![q] = [step |-> step, user |-> user, plan |-> plan, by |-> by]]
Done(q) == request' = [request EXCEPT ![q] = None]

\* A mail is queued, unless the queue is full.
Write(link) ==
  /\ written < MaxMails
  /\ written' = written + 1
  /\ queue' = IF Len(queue) < QueueCap
              THEN Append(queue, [number |-> written + 1, link |-> link]) ELSE queue
  /\ UNCHANGED <<worker, stalled>>

-----------------------------------------------------------------------------
\* Signup stores the address as it is typed; the addresses are unique.
Signup(q, u, e, word) ==
  /\ request[q] = None /\ ~Exists(u)
  /\ \A v \in User : Exists(v) => row[v].email # e
  /\ row' = [row EXCEPT ![u] = [email |-> e, password |-> word, plan |-> "free"]]
  /\ Do(q, "issue", u, "free", "token")
  /\ UNCHANGED <<clock, left, key, tokens, inbox, mail, asked>>

\* Login reads the row of the address as it is typed, and compares the hash.
Login(q, u, e, word) ==
  /\ request[q] = None /\ Exists(u)
  /\ row[u].email = e /\ row[u].password = word
  /\ Do(q, "issue", u, row[u].plan, "token")
  /\ UNCHANGED <<clock, users, key, tokens, inbox, mail, asked>>

\* Fault: the plan of the old token is carried over.
RefreshClaims(q, t) ==
  /\ request[q] = None /\ Valid(t)
  /\ Do(q, "issue", t.user, t.plan, "token")
  /\ UNCHANGED <<clock, users, key, tokens, inbox, mail, asked>>

\* Refresh: whatever the middleware accepts is good for a token, with the plan of
\* the row.
Refresh(q, t) ==
  /\ request[q] = None /\ Valid(t)
  /\ Do(q, "issue", t.user, row[t.user].plan, "token")
  /\ UNCHANGED <<clock, users, key, tokens, inbox, mail, asked>>

\* GenerateToken, with what was read.  The client keeps the token, and of its
\* others those it likes.
GenerateToken(q) ==
  /\ request[q] # None /\ request[q].step = "issue"
  /\ LET t == [user |-> request[q].user, plan |-> request[q].plan, expires |-> clock + TokenLife]
     IN \E kept \in SUBSET tokens :
          /\ Cardinality(kept) < MaxTokens
          /\ tokens' = kept \cup {t}
  /\ Done(q)
  /\ UNCHANGED <<clock, users, key, inbox, mail, asked>>

\* Middleware, and FlexibleMiddleware with a JWT.
UseToken(q, t) ==
  /\ request[q] = None /\ Valid(t)
  /\ Do(q, "serve", t.user, t.plan, "token")
  /\ UNCHANGED <<clock, users, key, tokens, inbox, mail, asked>>

\* FlexibleMiddleware with an API key: the first statement of Validate.
FindKey(q, k) ==
  /\ request[q] = None
  /\ key[k].user # None /\ ~key[k].revoked
  /\ Do(q, "plan", key[k].user, "free", "key")
  /\ UNCHANGED <<clock, users, key, tokens, inbox, mail, asked>>

\* The second: the plan of the row, and "free" when it cannot be read.
ReadPlan(q) ==
  /\ request[q] # None /\ request[q].step = "plan"
  /\ \E p \in {row[request[q].user].plan, "free"} : Do(q, "serve", request[q].user, p, "key")
  /\ UNCHANGED <<clock, users, key, tokens, inbox, mail, asked>>

\* The handler runs with the user and the plan that it was given.
Serve(q) ==
  /\ request[q] # None /\ request[q].step = "serve"
  /\ Done(q)
  /\ UNCHANGED <<clock, users, key, tokens, inbox, mail, asked>>

-----------------------------------------------------------------------------
\* Billing makes the user "pro", with a receipt and a welcome, or "free" again.
ChangePlan(u, p) ==
  /\ Exists(u) /\ row[u].plan # p
  /\ row' = [row EXCEPT ![u].plan = p]
  /\ left' = [left EXCEPT ![u][row[u].plan] = clock]
  /\ IF p = "pro" THEN Write(None) ELSE UNCHANGED mail
  /\ UNCHANGED <<clock, key, tokens, inbox, request, asked>>

\* CreateAPIKey and RevokeAPIKey, for whom the middleware accepts.
CreateAPIKey(t, k) ==
  /\ Valid(t) /\ key[k].user = None
  /\ key' = [key EXCEPT ![k].user = t.user]
  /\ UNCHANGED <<clock, users, tokens, inbox, mail, request, asked>>

RevokeAPIKey(t, k) ==
  /\ Valid(t) /\ key[k].user = t.user /\ ~key[k].revoked
  /\ key' = [key EXCEPT ![k].revoked = TRUE]
  /\ UNCHANGED <<clock, users, tokens, inbox, mail, request, asked>>

\* Forgot writes a link to the account of the address, looked up in lower case.
Forgot(u, e) ==
  /\ Exists(u) /\ row[u].email = Lower[e]
  /\ Write([user |-> u, expires |-> clock + LinkLife])
  /\ asked' = [asked EXCEPT ![u] = clock]
  /\ UNCHANGED <<clock, users, key, tokens, inbox, request>>

\* Fault: the expiry of a link is not looked at.
ResetLate(l, word) ==
  /\ row' = [row EXCEPT ![l.user].password = word]
  /\ UNCHANGED <<clock, left, key, tokens, inbox, mail, request, asked>>

\* Reset sets the password; a link may be used again until it expires.
Reset(l, word) ==
  /\ Valid(l)
  /\ row' = [row EXCEPT ![l.user].password = word]
  /\ UNCHANGED <<clock, left, key, tokens, inbox, mail, request, asked>>

-----------------------------------------------------------------------------
TakeMail(w) ==
  /\ worker[w] = None /\ queue # <<>>
  /\ worker' = [worker EXCEPT ![w] = Head(queue)]
  /\ queue' = Tail(queue)
  /\ UNCHANGED <<clock, users, key, tokens, inbox, stalled, written, request, asked>>

\* Fault: a worker whose mail cannot be sent stops.
SendOrStop(w) ==
  /\ worker[w] # None /\ worker[w].link # None
  /\ inbox' = inbox \cup {worker[w].link}
  /\ worker' = [worker EXCEPT ![w] = None]
  /\ stalled' = stalled \ {w}
  /\ UNCHANGED <<clock, users, key, tokens, queue, written, request, asked>>

\* The mail is sent, or that fails and is only logged.
SendMail(w) ==
  /\ worker[w] # None
  /\ inbox' \in {inbox, inbox \cup ({worker[w].link} \ {None})}
  /\ worker' = [worker EXCEPT ![w] = None]
  /\ stalled' = stalled \ {w}
  /\ UNCHANGED <<clock, users, key, tokens, queue, written, request, asked>>

\* The mail server stops answering: smtp.SendMail has no deadline.
Stall(w) ==
  /\ worker[w] # None /\ w \notin stalled
  /\ stalled' = stalled \cup {w}
  /\ UNCHANGED <<clock, users, key, tokens, inbox, queue, worker, written, request, asked>>

\* The server restarts: requests end, the queue is lost.
Restart ==
  /\ queue # <<>> \/ (\E w \in Worker : worker[w] # None) \/ (\E q \in Request : request[q] # None)
  /\ queue' = <<>> /\ worker' = [w \in Worker |-> None] /\ stalled' = {}
  /\ request' = [q \in Request |-> None]
  /\ UNCHANGED <<clock, users, key, tokens, inbox, written, asked>>

Next ==
  \/ Tick \/ Restart
  \/ \E q \in Request :
       \/ \E u \in User, e \in Address, word \in Password : Signup(q, u, e, word) \/ Login(q, u, e, word)
       \/ \E t \in Bearer : Refresh(q, t) \/ UseToken(q, t)
       \/ GenerateToken(q)
       \/ \E k \in Key : FindKey(q, k)
       \/ ReadPlan(q) \/ Serve(q)
  \/ \E u \in User : (\E p \in Plan : ChangePlan(u, p)) \/ (\E e \in Address : Forgot(u, e))
  \/ \E t \in Bearer, k \in Key : CreateAPIKey(t, k) \/ RevokeAPIKey(t, k)
  \/ \E l \in inbox, word \in Password : Reset(l, word)
  \/ \E w \in Worker : TakeMail(w) \/ SendMail(w) \/ Stall(w)

\* The workers are goroutines that loop over the channel.  Sending ends as long as
\* the server answers; nothing is promised of a worker that is stalled.
Fairness ==
  \A w \in Worker : WF_vars(TakeMail(w)) /\ WF_vars(w \notin stalled /\ SendMail(w))
Spec == Init /\ [][Next]_vars /\ Fairness

-----------------------------------------------------------------------------
(***************************************************************************)
(* Properties                                                              *)
(***************************************************************************)

TypeOK ==
  /\ clock \in Time
  /\ row \in [User -> Row \cup {None}]
  /\ key \in [Key -> [user : User \cup {None}, revoked : BOOLEAN]]
  /\ tokens \subseteq Token
  /\ inbox \subseteq Link
  /\ queue \in Seq(Mail)
  /\ worker \in [Worker -> Mail \cup {None}]
  /\ stalled \subseteq Worker
  /\ written \in 0 .. MaxMails
  /\ request \in [Request -> Work \cup {None}]
  /\ left \in [User -> [Plan -> Time \cup {None}]]
  /\ asked \in [User -> Time \cup {None}]

\* u has the plan p, or had it less than n ago.
Had(u, p, n) == row[u].plan = p \/ (left[u][p] # None /\ clock < left[u][p] + n)

\* u has asked for a link whose life is not over.
Asked(u) == asked[u] # None /\ clock < asked[u] + LinkLife

\* A handler runs with a plan that its user had within the life of a token, however
\* often tokens were refreshed and however the plan changed in the meantime, or
\* without one, and that only within the life of a link that the user asked for; a
\* handler reached with an API key runs with a plan of this very moment, or with
\* "free".
PlanIsRecent ==
  \A q \in Request :
    LET r == request[q] IN
    r # None /\ r.step = "serve" =>
      \/ r.by = "token" /\ r.plan # NoPlan /\ Had(r.user, r.plan, TokenLife)
      \/ r.by = "token" /\ r.plan = NoPlan /\ Asked(r.user)
      \/ r.by = "key" /\ (r.plan = "free" \/ Had(r.user, r.plan, 1))

\* A password only changes within the life of a link after a reset was asked for
\* that account, however long the mail waited in the queue and whatever other
\* links of the account are about.
ChangesFollowForgot ==
  [][\A u \in User :
       Exists(u) /\ row'[u].password # row[u].password =>
         Asked(u)]_vars

\* A mail that was accepted into the queue leaves it and its worker, by having been
\* tried or with a restart, which empties the queue: whatever mails before it could
\* not be sent, and although some servers do not answer.  It stays only while its
\* own does not, or while no worker has one that does.
Waiting(n) ==
  \/ \E i \in 1 .. Len(queue) : queue[i].number = n
  \/ \E w \in Worker : worker[w] # None /\ worker[w].number = n
HeldUp(n) == stalled = Worker \/ \E w \in stalled : worker[w].number = n
MailGoesOn == \A n \in 1 .. MaxMails : Waiting(n) ~> (~Waiting(n) \/ HeldUp(n))
=============================================================================
