---------------------------- MODULE PodLifecycle ----------------------------
(***************************************************************************)
(* One process of the server: app.py starts four components in turn, and   *)
(* closes in reverse order those that have started.  While it serves, the  *)
(* notifier signs provider tokens, and reuses them, for what it sends to   *)
(* Apple.  Any start or close may raise, and the process may be killed.    *)
(***************************************************************************)
EXTENDS Integers, Sequences

CONSTANTS Reuse,      \* a token is reused while it is younger: fifty minutes
          MinReuse,   \* Apple asks for at least this: twenty minutes
          MaxAge,     \* Apple refuses tokens older than this: one hour
          SendTime    \* from taking a token until Apple has the request

ASSUME LifecycleAssumption ==
  /\ {Reuse, MinReuse, MaxAge, SendTime} \subseteq Nat
  /\ MinReuse <= Reuse /\ 0 < Reuse /\ Reuse + SendTime <= MaxAge

Parts == <<"verifier", "store", "push", "disclosure">>

VARIABLES
  phase,     \* of the process
  started,   \* how many of Parts have been started and not closed
  raised,    \* whether closing one of them has raised
  signed,    \* whether there is a provider token
  age,       \* its age; stays at MaxAge when it is older
  sending    \* tokens on their way to Apple: their age, and for how long

podVars == <<phase, started, raised, signed, age, sending>>

Phases == {"down", "starting", "serving", "closing", "ended"}
JustTaken == [age |-> 0, elapsed |-> 0]

PodInit ==
  /\ phase = "down" /\ started = 0 /\ raised = FALSE
  /\ signed = FALSE /\ age = 0 /\ sending = {}

(* main.build_app: a new process, with nothing of the last one. *)
Launch ==
  /\ phase \in {"down", "ended"}
  /\ phase' = "starting" /\ started' = 0 /\ raised' = FALSE
  /\ signed' = FALSE /\ age' = 0 /\ sending' = {}

(* lifespan, up to its yield.  Each start may raise; the verifier's, which *)
(* goes on without keys after an HTTPError or a ValueError, still does for *)
(* a key that PyJWK cannot read.                                           *)
StartPart ==
  /\ phase = "starting"
  /\ started' = started + 1
  /\ phase' = IF started' = Len(Parts) THEN "serving" ELSE "starting"
  /\ UNCHANGED <<raised, signed, age, sending>>

StartFails ==
  /\ phase = "starting"
  /\ phase' = "closing"
  /\ UNCHANGED <<started, raised, signed, age, sending>>

(* Uvicorn lets the requests in progress finish before it shuts down.      *)
Terminate ==
  /\ phase = "serving" /\ sending = {}
  /\ phase' = "closing"
  /\ age' = 0   \* nothing asks for it any more
  /\ UNCHANGED <<started, raised, signed, sending>>

(* The finally clause: each part that has started, the last one first.  An *)
(* exception leaves the clause.  The mutant closes nothing unless          *)
(* everything had started.                                                 *)
OnlyAfterServing == phase = "closing" /\ started = Len(Parts)
Unwinding == phase = "closing" /\ started > 0

TokenAfterClose == signed /\ Parts[started] # "push"

ClosePart ==
  /\ Unwinding
  /\ started' = started - 1
  /\ signed' = TokenAfterClose
  /\ \/ UNCHANGED <<phase, raised>>
     \/ phase' = "ended" /\ raised' = TRUE
  /\ UNCHANGED <<age, sending>>

Exit ==
  /\ phase = "closing" /\ ~Unwinding
  /\ phase' = "ended"
  /\ UNCHANGED <<started, raised, signed, age, sending>>

Kill ==
  /\ phase \notin {"down", "ended"}
  /\ phase' = "down" /\ started' = 0 /\ raised' = FALSE
  /\ signed' = FALSE /\ age' = 0 /\ sending' = {}

----------------------------------------------------------------------------
(* _get_provider_token, under its lock, and the POST.  The mutants keep a  *)
(* token for as long as Apple takes it, and sign one for every push.       *)
ReusableWhileValid == signed /\ age <= MaxAge
NeverReusable == FALSE
Reusable == signed /\ age < Reuse

Send ==
  /\ phase = "serving"
  /\ signed' = TRUE
  /\ age' = IF Reusable THEN age ELSE 0
  /\ sending' = sending \cup {[JustTaken EXCEPT !.age = age']}
  /\ UNCHANGED <<phase, started, raised>>

Arrive ==
  /\ \E s \in sending : sending' = sending \ {s}
  /\ UNCHANGED <<phase, started, raised, signed, age>>

PodTick ==
  /\ phase = "serving" /\ signed
  /\ \A s \in sending : s.elapsed < SendTime
  /\ age' = IF age < MaxAge THEN age + 1 ELSE age
  /\ sending' = {[age |-> s.age + 1, elapsed |-> s.elapsed + 1] : s \in sending}
  /\ age' # age \/ sending # {}
  /\ UNCHANGED <<phase, started, raised, signed>>

PodRuns ==
  \/ StartPart \/ StartFails \/ Terminate \/ ClosePart \/ Exit \/ Kill
  \/ Send \/ Arrive \/ PodTick

PodSpec == PodInit /\ [][Launch \/ PodRuns]_podVars

----------------------------------------------------------------------------
PodTypeOK ==
  /\ phase \in Phases /\ started \in 0 .. Len(Parts) /\ raised \in BOOLEAN
  /\ signed \in BOOLEAN /\ age \in 0 .. MaxAge
  /\ sending \subseteq [age : Nat, elapsed : 0 .. SendTime]
  /\ phase = "serving" => started = Len(Parts)

(* However far the start has come and whichever part failed, a process     *)
(* that ends by itself has closed what it had started, and has forgotten   *)
(* its token; unless closing something raised, when the rest stays.        *)
EndsClosed == phase = "ended" => raised \/ (started = 0 /\ ~signed)

(* "Apple ... rejects it after one hour" (notifications.py:156): no token  *)
(* is older when Apple gets it, though it may be taken in the last moment  *)
(* and the push may be slow.                                               *)
NoOldTokenSent == \A s \in sending : s.age <= MaxAge

(* "to reuse a token for at least 20 minutes" (notifications.py:155): a    *)
(* process that goes on signs no other before.                             *)
RenewedSparingly ==
  [][age' < age => age >= MinReuse \/ phase' # "serving"]_podVars
=============================================================================
