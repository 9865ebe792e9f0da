----------------------------- MODULE RuntimeMode -----------------------------
(***************************************************************************)
(* How the mode of the two services is switched.  An administrator's       *)
(* request writes the mode to a file both containers share, asks the agent *)
(* for a restart over MQTT and, when that is published, lets the backend   *)
(* send itself SIGTERM half a second later.  In each container a shell     *)
(* loop reads the file and starts the program, again and again             *)
(* (entrypoint.sh).  In development mode a reloader stands between: it     *)
(* starts the program anew when its source changes, and waits for that     *)
(* also when the program has ended.                                        *)
(*                                                                         *)
(* Failures, of which at most MaxFailures happen: a publication raises,    *)
(* delivered or not; the agent's control listener loses its connection,    *)
(* which ends it; a program crashes.                                       *)
(***************************************************************************)
EXTENDS Naturals

CONSTANTS
  Admins,      \* requests of administrators
  MaxFailures  \* bound: failures in one behaviour

FailuresAssumption == MaxFailures \in Nat

VARIABLES
  mode_file,  \* /runtime/mode; a missing or unreadable one means production
  mode,       \* what each shell loop read when it started its program
  life,       \* each program
  listening,  \* the control listener has subscribed and still runs
  control,    \* a restart message is on its way to it
  admin,      \* each request
  kill,       \* _delayed_backend_restart sleeps
  failures,   \* failures so far
  missed      \* history: the service was not told since it read the file

vars == <<mode_file, mode, life, listening, control, admin, kill, failures, missed>>

Services == {"backend", "agent"}
Modes    == {"production", "development"}
Lives    == {"starting", "serving", "stopping", "ended"}

Init ==
  /\ mode_file \in Modes /\ mode = [s \in Services |-> mode_file]
  /\ life = [s \in Services |-> "starting"]
  /\ listening = FALSE /\ control = FALSE
  /\ admin = [r \in Admins |-> "idle"]
  /\ kill = FALSE /\ failures = 0
  /\ missed = [s \in Services |-> FALSE]

Fail == failures < MaxFailures /\ failures' = failures + 1

Becomes(s, what) == life' = [life EXCEPT ![s] = what]
Publishing == {r \in Admins : admin[r] \in {"switching", "restarting"}}

-------------------------------------------------------------------------------
(* The requests. *)

Ask(r, what) ==
  /\ life["backend"] = "serving"
  /\ admin[r] = "idle" /\ admin' = [admin EXCEPT ![r] = what]
  /\ UNCHANGED <<mode, life, listening, control, failures, missed>>

SetMode(r, m) == Ask(r, "switching") /\ mode_file' = m /\ UNCHANGED kill

RestartAgent(r) == Ask(r, "restarting") /\ UNCHANGED <<mode_file, kill>>

RestartBackend(r) == Ask(r, "done") /\ kill' = TRUE /\ UNCHANGED mode_file

(* The message is not retained; an agent on its way out needs none. *)
Heard(r) ==
  /\ control' = (control \/ listening)
  /\ missed' = [missed EXCEPT !["agent"] =
                  @ \/ (admin[r] = "switching" /\ ~listening /\ life["agent"] # "stopping")]

Answer(r) ==
  /\ r \in Publishing
  /\ admin' = [admin EXCEPT ![r] = "done"]
  /\ UNCHANGED <<mode_file, mode, life, listening>>

(* Mutant: the restart of the backend is not scheduled. *)
PublishedOnly(r) == Answer(r) /\ Heard(r) /\ UNCHANGED <<kill, failures>>

Published(r) ==
  /\ Answer(r) /\ Heard(r)
  /\ kill' = (kill \/ admin[r] = "switching")
  /\ UNCHANGED failures

(* The request ends with the file written and no restart of the backend. *)
PublishError(r) ==
  /\ Answer(r) /\ Fail
  /\ LET switching == admin[r] = "switching" IN
       \/ /\ control' = (control \/ listening)
          /\ missed' = [s \in Services |->
                          missed[s] \/ (switching /\ (s = "agent" => ~listening))]
       \/ /\ missed' = [s \in Services |-> missed[s] \/ switching]
          /\ UNCHANGED control
  /\ UNCHANGED kill

-------------------------------------------------------------------------------
(* The programs end. *)

Kill ==
  /\ kill /\ life["backend"] = "serving"
  /\ Becomes("backend", "stopping")
  /\ UNCHANGED <<mode_file, mode, listening, control, admin, kill, failures, missed>>

(* The listener returns after its first restart. *)
Hear ==
  /\ control /\ control' = FALSE
  /\ listening' = FALSE
  /\ Becomes("agent", "stopping")
  /\ UNCHANGED <<mode_file, mode, admin, kill, failures, missed>>

(* What a program that ends takes with it. *)
Forget(s) ==
  IF s = "agent" THEN listening' = FALSE /\ control' = FALSE /\ UNCHANGED kill
                 ELSE kill' = FALSE /\ UNCHANGED <<listening, control>>

(* The loop of entrypoint.sh. *)
Start(s) ==
  /\ mode' = [mode EXCEPT ![s] = mode_file]
  /\ Becomes(s, "starting")
  /\ missed' = [missed EXCEPT ![s] = FALSE]

(* The reloader does not look after its child. *)
Reload(s) ==
  /\ Becomes(s, "ended")
  /\ missed' = [missed EXCEPT ![s] = TRUE]
  /\ UNCHANGED mode

(* Mutant: the exit status of SIGTERM, 143, ends the loop for good. *)
EndForGood(s) ==
  /\ life[s] = "stopping" /\ (s = "backend" => Publishing = {})
  /\ Forget(s)
  /\ IF mode[s] = "development" \/ s = "backend" THEN Reload(s) ELSE Start(s)
  /\ UNCHANGED <<mode_file, admin, failures>>

(* The backend finishes its requests first. *)
End(s) ==
  /\ life[s] = "stopping" /\ (s = "backend" => Publishing = {})
  /\ Forget(s)
  /\ IF mode[s] = "development" THEN Reload(s) ELSE Start(s)
  /\ UNCHANGED <<mode_file, admin, failures>>

(* Docker starts the container again; requests are gone. *)
Crash(s) ==
  /\ life[s] # "ended"
  /\ Fail /\ Forget(s)
  /\ admin' = [r \in Admins |-> IF s = "backend" /\ r \in Publishing THEN "done" ELSE admin[r]]
  /\ mode' = [mode EXCEPT ![s] = IF @ = "development" THEN @ ELSE mode_file]
  /\ Becomes(s, IF mode[s] = "development" THEN "ended" ELSE "starting")
  /\ missed' = [t \in Services |->
       IF t = s THEN mode[s] = "development"
       ELSE missed[t] \/ (s = "backend" /\ \E r \in Admins : admin[r] = "switching")]
  /\ UNCHANGED mode_file

(* A developer changes the source. *)
ChangeSource(s) ==
  /\ mode[s] = "development" /\ life[s] \in {"serving", "ended"}
  /\ (s = "backend" => Publishing = {})
  /\ Forget(s) /\ Becomes(s, "starting")
  /\ missed' = [missed EXCEPT ![s] = TRUE]
  /\ UNCHANGED <<mode_file, mode, admin, failures>>

-------------------------------------------------------------------------------
(* The programs begin: lifespan, and run as far as control_listener. *)
Ready(s) ==
  /\ life[s] = "starting" /\ Becomes(s, "serving")
  /\ listening' = (listening \/ s = "agent")
  /\ UNCHANGED <<mode_file, mode, control, admin, kill, failures, missed>>

ListenerError ==
  /\ listening /\ Fail
  /\ listening' = FALSE /\ control' = FALSE
  /\ missed' = [missed EXCEPT !["agent"] = @ \/ control]
  /\ UNCHANGED <<mode_file, mode, life, admin, kill>>

-------------------------------------------------------------------------------
Request(r) ==
  \/ \E m \in Modes : SetMode(r, m)
  \/ RestartAgent(r) \/ RestartBackend(r) \/ Published(r) \/ PublishError(r)

Service(s) == End(s) \/ Crash(s) \/ ChangeSource(s) \/ Ready(s)

Next ==
  \/ \E r \in Admins : Request(r)
  \/ \E s \in Services : Service(s)
  \/ Kill \/ Hear \/ ListenerError

Spec == Init /\ [][Next]_vars

(* Publications return or raise, asyncio's sleep ends, a message that is   *)
(* delivered is read, programs end when told to and come up.               *)
Fairness ==
  /\ WF_vars(Kill) /\ WF_vars(Hear)
  /\ \A r \in Admins : WF_vars(Published(r))
  /\ \A s \in Services : WF_vars(End(s)) /\ WF_vars(Ready(s))

FairSpec == Spec /\ Fairness
-------------------------------------------------------------------------------
TypeOK ==
  /\ mode_file \in Modes /\ mode \in [Services -> Modes]
  /\ life \in [Services -> Lives]
  /\ listening \in BOOLEAN /\ control \in BOOLEAN /\ kill \in BOOLEAN
  /\ control => listening
  /\ listening => life["agent"] = "serving"
  /\ admin \in [Admins -> {"idle", "switching", "restarting", "done"}]
  /\ failures \in 0 .. MaxFailures
  /\ missed \in [Services -> BOOLEAN]

(* It will read the file again. *)
Told(s) ==
  \/ life[s] = "stopping"
  \/ \E r \in Admins : admin[r] = "switching"
  \/ IF s = "agent" THEN control ELSE kill

(* A service in another mode than the file says (which admin_status calls  *)
(* the mode of the platform) is going to read the file, however switches,  *)
(* restarts and crashes overlap, unless the word was lost since it read    *)
(* the file the last time: the publication raised, the agent's listener    *)
(* was not there, or a reloader kept the place of the program.             *)
SwitchIsRead == \A s \in Services : mode[s] = mode_file \/ missed[s] \/ Told(s)

(* A service told to stop that was started in production mode serves again *)
(* (the exit statuses after which the loops of entrypoint.sh go on),       *)
(* unless it has come up in development mode and crashed there.            *)
ProductionReturns ==
  \A s \in Services : life[s] = "stopping" /\ mode[s] = "production"
    ~> life[s] = "serving" \/ (life[s] = "ended" /\ mode[s] = "development")

(* "После смены режима оба сервиса штатно перезапускаются" (docstring of   *)
(* admin_set_mode): a service told to stop serves again.                   *)
ServicesReturn == \A s \in Services : life[s] = "stopping" ~> life[s] = "serving"
===============================================================================
