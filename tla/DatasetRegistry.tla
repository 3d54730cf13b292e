---------------------------- MODULE DatasetRegistry ----------------------------
(***************************************************************************)
(* What ingestion promises its callers, without locks, objects or          *)
(* sessions: a registry that maps an identity to the first payload         *)
(* registered for it, for ever.  A caller asks to register a request and   *)
(* is told "created" by the step that registers it, "existing" only when   *)
(* the same key and bytes are registered, and may be refused at any time.  *)
(* A refusal says nothing: the payload may have been registered even so    *)
(* (IngestUnavailableError after a commit that did take place).            *)
(***************************************************************************)
CONSTANTS Callers, Requests, Ids, IdOf, KeyOf, BytesOf, NoRequest

VARIABLES registry,   \* [Ids -> request registered or NoRequest]
          answer,     \* [Callers -> answer being given or "none"]
          asked       \* [Callers -> request being answered or NoRequest]

vars == <<registry, answer, asked>>

Refusals == {"conflict", "unavailable", "unknown", "error"}

Init ==
  /\ registry = [i \in Ids |-> NoRequest]
  /\ answer = [c \in Callers |-> "none"]
  /\ asked = [c \in Callers |-> NoRequest]

Answer(c, r, a) ==
  /\ answer[c] = "none"
  /\ answer' = [answer EXCEPT ![c] = a]
  /\ asked' = [asked EXCEPT ![c] = r]

Enter(r) ==
  /\ registry[IdOf[r]] = NoRequest
  /\ registry' = [registry EXCEPT ![IdOf[r]] = r]

Create(c, r) == Enter(r) /\ Answer(c, r, "created")

Recall(c, r) ==
  LET first == registry[IdOf[r]] IN
  /\ first # NoRequest
  /\ KeyOf[first] = KeyOf[r] /\ BytesOf[first] = BytesOf[r]
  /\ Answer(c, r, "existing")
  /\ UNCHANGED registry

Refuse(c, r) ==
  /\ \E a \in Refusals : Answer(c, r, a)
  /\ Enter(r) \/ UNCHANGED registry

\* Registered, and the caller not told yet.
EnterSilently(r) == Enter(r) /\ UNCHANGED <<answer, asked>>

Deliver(c) ==
  /\ answer[c] # "none"
  /\ answer' = [answer EXCEPT ![c] = "none"]
  /\ asked' = [asked EXCEPT ![c] = NoRequest]
  /\ UNCHANGED registry

\* The process dies: nobody is answered, the registry stays.
Restart ==
  /\ answer' = [c \in Callers |-> "none"]
  /\ asked' = [c \in Callers |-> NoRequest]
  /\ UNCHANGED registry

Next ==
  \/ \E c \in Callers, r \in Requests :
       Create(c, r) \/ Recall(c, r) \/ Refuse(c, r)
  \/ \E r \in Requests : EnterSilently(r)
  \/ \E c \in Callers : Deliver(c)
  \/ Restart

Spec == Init /\ [][Next]_vars
=============================================================================
