---------------------------- MODULE ModelListing ----------------------------
(***************************************************************************)
(* What the model registry promises its callers, without counters and       *)
(* without a cache: which models are listed follows from what each client   *)
(* registered and from the marks put on it, at some moment between the      *)
(* question and the answer.                                                 *)
(***************************************************************************)
EXTENDS Integers, FiniteSets, Functions

CONSTANTS
  Clients,     \* credentials that register models
  Models,      \* model ids
  Readers,     \* requests that may be waiting for a listing
  Lists,       \* model lists a client may register: how often each id occurs
  Providers,   \* provider names
  NoProvider,  \* that of a client that is not registered
  Reasons,     \* reasons of a suspension; "quota" is one of them
  QuotaWindow, \* how long a quota mark counts (modelQuotaExceededWindow)
  MaxTime      \* bound of the clock

VARIABLES
  now,       \* the clock
  listed,    \* per client: how often it lists each model
  provider,  \* per client: the provider it registered with
  quota,     \* per model: the clients over quota, with the time of the mark
  suspended, \* per model: the suspended clients, with the reason
  asked,     \* per reader: when the answer it waits for was asked, -1 = none
  answer     \* the listing this step answered with, {} outside answers

vars == <<now, listed, provider, quota, suspended, asked, answer>>

-----------------------------------------------------------------------------
Nothing == [m \in Models |-> 0]
NoMarks == [c \in {} |-> 0]

\* How often the clients' lists name m.
Total(m) == Cardinality(UNION {{c} \X (1..listed[c][m]) : c \in Clients})

OverQuota(m, t) == {c \in DOMAIN quota[m] : t < quota[m][c] + QuotaWindow}
ForQuota(m)     == {c \in DOMAIN suspended[m] : suspended[m][c] = "quota"}
Otherwise(m)    == DOMAIN suspended[m] \ ForQuota(m)

\* A model is offered at time t: somebody is left, or everybody only cools down.
Offered(m, t) ==
  \/ Total(m) > Cardinality(OverQuota(m, t)) + Cardinality(Otherwise(m))
  \/ /\ Total(m) > 0
     /\ Otherwise(m) = {}
     /\ OverQuota(m, t) \cup ForQuota(m) # {}

Listing(t) == {m \in Models : Offered(m, t)}

\* The marks of a model nobody lists any more are forgotten; so are those of c
\* on the models it gives up, and on those it lists again.
Unmark(marks, c, gone, after) ==
  [m \in Models |->
     IF \A d \in Clients : after[d][m] = 0 THEN NoMarks
     ELSE Restrict(marks[m], DOMAIN marks[m] \ (IF m \in gone THEN {c} ELSE {}))]

-----------------------------------------------------------------------------
Init ==
  /\ now = 0
  /\ listed = [c \in Clients |-> Nothing]
  /\ provider = [c \in Clients |-> NoProvider]
  /\ quota = [m \in Models |-> NoMarks]
  /\ suspended = [m \in Models |-> NoMarks]
  /\ asked = [r \in Readers |-> -1]
  /\ answer = {}

Tick ==
  /\ now < MaxTime
  /\ now' = now + 1
  /\ answer' = {}
  /\ UNCHANGED <<listed, provider, quota, suspended, asked>>

\* A client (re)registers a list, the empty one to leave. A client that was
\* there already loses its marks on the models of both lists.
Register(c, list, pv) ==
  LET after == [listed EXCEPT ![c] = list]
      fresh == listed[c] = Nothing
      gone  == IF fresh THEN {} ELSE {m \in Models : listed[c][m] + list[m] > 0}
  IN /\ listed' = after
     /\ provider' = [provider EXCEPT ![c] = IF list = Nothing THEN NoProvider ELSE pv]
     /\ quota' = Unmark(quota, c, gone, after)
     /\ suspended' = Unmark(suspended, c, gone, after)
     /\ answer' = {}
     /\ UNCHANGED <<now, asked>>

\* Marks come and go on listed models, whoever lists them.
Remark(m) ==
  /\ Total(m) > 0
  /\ \E c \in Clients :
       \/ /\ \/ quota' = [quota EXCEPT ![m] = [d \in DOMAIN @ \cup {c} |-> IF d = c THEN now ELSE @[d]]]
             \/ quota' = [quota EXCEPT ![m] = Restrict(@, DOMAIN @ \ {c})]
          /\ UNCHANGED suspended
       \/ /\ \/ \E r \in Reasons : suspended' =
                  [suspended EXCEPT ![m] = [d \in DOMAIN @ \cup {c} |-> IF d = c THEN r ELSE @[d]]]
             \/ suspended' = [suspended EXCEPT ![m] = Restrict(@, DOMAIN @ \ {c})]
          /\ UNCHANGED quota
  /\ answer' = {}
  /\ UNCHANGED <<now, listed, provider, asked>>

\* Forgetting expired quota marks changes no answer.
Forget ==
  /\ answer' = {}
  /\ quota' = [m \in Models |-> Restrict(quota[m], OverQuota(m, now))]
  /\ UNCHANGED <<now, listed, provider, suspended, asked>>

Ask(r) ==
  /\ asked[r] = -1
  /\ asked' = [asked EXCEPT ![r] = now]
  /\ answer' = {}
  /\ UNCHANGED <<now, listed, provider, quota, suspended>>

\* An answer is the listing of a moment since it was asked for.
Answer(r) ==
  /\ asked[r] # -1
  /\ \E t \in asked[r]..now : answer' = {Listing(t)}
  /\ asked' = [asked EXCEPT ![r] = -1]
  /\ UNCHANGED <<now, listed, provider, quota, suspended>>

AnswerAtOnce ==
  /\ answer' = {Listing(now)}
  /\ UNCHANGED <<now, listed, provider, quota, suspended, asked>>

Next ==
  \/ Forget
  \/ Tick
  \/ \E c \in Clients, list \in Lists \cup {Nothing}, pv \in Providers :
       Register(c, list, pv)
  \/ \E m \in Models : Remark(m)
  \/ \E r \in Readers : Ask(r) \/ Answer(r)
  \/ AnswerAtOnce

Spec == Init /\ [][Next]_vars
=============================================================================
