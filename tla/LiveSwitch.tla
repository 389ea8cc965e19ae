----------------------------- MODULE LiveSwitch -----------------------------
(***************************************************************************)
(* The live switch of the dashboard: the same flag in three places.        *)
(* A request to arm or disarm writes the LIVE_ARMED line of .env, then the *)
(* field of the Redis hash state:live, then a record of stream:control;    *)
(* the deployment copies .env to the other two while the dashboard it will *)
(* replace is still serving requests. Nothing orders these writers.        *)
(***************************************************************************)
EXTENDS Naturals, Sequences

CONSTANT Operator   \* browsers that may send a request, one at a time each

Flag == {"0", "1"}

VARIABLES env,       \* the LIVE_ARMED lines of .env, top to bottom
          hash,      \* field armed of state:live, "none" when it is missing
          told,      \* armed in the newest record of stream:control
          call,      \* the handler of each operator's request
          deploy,    \* deploy/run.sh, in ensure_live_defaults
          alone,     \* history: the change in flight has been by itself so far
          whole      \* history: which kind of change was the last, if it made
                     \* all its writes by itself

switch == <<env, hash, told, call, deploy, alone, whole>>

At == {"idle", "hset", "xadd"}
DeployAt == {"idle", "look", "append", "hset", "xadd"}

SwitchTypeOK == /\ env \in Seq(Flag)
                /\ hash \in Flag \cup {"none"} /\ told \in Flag \cup {"none"}
                /\ call \in [Operator -> [at : At, armed : Flag]]
                /\ deploy \in [at : DeployAt, armed : Flag]
                /\ alone \in BOOLEAN /\ whole \in {"no", "request", "deploy"}

-----------------------------------------------------------------------------
(* Readers and writers of .env. The dashboard reads the first line with the *)
(* key and rewrites every one; the deployment reads the last line and       *)
(* rewrites the first.                                                      *)

EnvGet(lines) == IF lines = <<>> THEN "0" ELSE lines[1]

\* Mutant: the new line is appended whether or not there is one.
EnvSetAppend(lines, v) == Append(lines, v)

EnvSet(lines, v) == IF lines = <<>> THEN <<v>> ELSE [i \in 1..Len(lines) |-> v]
GetEnvKv(lines) == IF lines = <<>> THEN "none" ELSE lines[Len(lines)]
SetEnvKv(lines, v) == [lines EXCEPT ![1] = v]

Busy == (\E o \in Operator : call[o].at # "idle") \/ deploy.at # "idle"

Starts == alone' = ~Busy /\ whole' = "no"
Disturbs == alone' = FALSE /\ whole' = "no"
Goes(o, step) == call' = [call EXCEPT ![o].at = step]

(* At first .env has the LIVE_ARMED lines first: none, one or, edited by    *)
(* hand, several.                                                           *)
SwitchInit(first) ==
  /\ env = first /\ hash = "none" /\ told = "none"
  /\ call = [o \in Operator |-> [at |-> "idle", armed |-> "0"]]
  /\ deploy = [at |-> "idle", armed |-> "0"]
  /\ alone = FALSE /\ whole = "no"

(* live_arm, live_disarm: nothing is awaited between the call and the write. *)
Ask(o, v) == /\ call[o].at = "idle"
             /\ env' = EnvSet(env, v)
             /\ call' = [call EXCEPT ![o] = [at |-> "hset", armed |-> v]]
             /\ Starts
             /\ UNCHANGED <<hash, told, deploy>>

(* _publish_live_state, first await: HSET. *)
WriteHash(o) == /\ call[o].at = "hset"
                /\ hash' = call[o].armed
                /\ Goes(o, "xadd")
                /\ UNCHANGED <<env, told, deploy, alone, whole>>

(* ... or it raises, before or after Redis has done it: the request ends. *)
HashFails(o, landed) == /\ call[o].at = "hset"
                        /\ hash' = IF landed THEN call[o].armed ELSE hash
                        /\ Goes(o, "idle")
                        /\ Disturbs
                        /\ UNCHANGED <<env, told, deploy>>

(* Second await: XADD; then the request is answered. *)
Tell(o) == /\ call[o].at = "xadd"
           /\ told' = call[o].armed
           /\ Goes(o, "idle")
           /\ whole' = IF alone THEN "request" ELSE "no"
           /\ UNCHANGED <<env, hash, deploy, alone>>

TellFails(o, landed) == /\ call[o].at = "xadd"
                        /\ told' = IF landed THEN call[o].armed ELSE told
                        /\ Goes(o, "idle")
                        /\ Disturbs
                        /\ UNCHANGED <<env, hash, deploy>>

(* ensure_live_defaults: get_env_kv, and "0" when there is no line. *)
\* Mutant: no default when .env has no line.
DefaultMissing(v) == v

Default(v) == IF v = "none" THEN "0" ELSE v

DeployReads == /\ deploy.at = "idle"
               /\ deploy' = [at |-> IF GetEnvKv(env) = "none" THEN "look" ELSE "hset",
                             armed |-> Default(GetEnvKv(env))]
               /\ Starts
               /\ UNCHANGED <<env, hash, told, call>>

(* set_env_kv: grep decides between rewriting and appending. *)
DeployLooks == /\ deploy.at = "look"
               /\ IF env = <<>>
                  THEN deploy' = [deploy EXCEPT !.at = "append"] /\ UNCHANGED env
                  ELSE /\ deploy' = [deploy EXCEPT !.at = "hset"]
                       /\ env' = SetEnvKv(env, deploy.armed)
               /\ UNCHANGED <<hash, told, call, alone, whole>>

DeployAppends == /\ deploy.at = "append"
                 /\ env' = Append(env, deploy.armed)
                 /\ deploy' = [deploy EXCEPT !.at = "hset"]
                 /\ UNCHANGED <<hash, told, call, alone, whole>>

(* redis_cli HSET ... || true, then redis_cli XADD ... || true. *)
DeployHash(landed) == /\ deploy.at = "hset"
                      /\ hash' = IF landed THEN deploy.armed ELSE hash
                      /\ deploy' = [deploy EXCEPT !.at = "xadd"]
                      /\ IF landed THEN UNCHANGED <<alone, whole>> ELSE Disturbs
                      /\ UNCHANGED <<env, told, call>>

DeployTells(landed) == /\ deploy.at = "xadd"
                       /\ told' = IF landed THEN deploy.armed ELSE told
                       /\ deploy' = [deploy EXCEPT !.at = "idle"]
                       /\ whole' = IF alone /\ landed THEN "deploy" ELSE "no"
                       /\ UNCHANGED <<env, hash, call, alone>>

(* The dashboard's process ends, by a crash or by the deployment. *)
SwitchKill == /\ call' = [o \in Operator |-> [call[o] EXCEPT !.at = "idle"]]
              /\ IF \E o \in Operator : call[o].at # "idle"
                 THEN Disturbs ELSE UNCHANGED <<alone, whole>>
              /\ UNCHANGED <<env, hash, told, deploy>>

(* Redis keeps nothing on disk. *)
SwitchRedisRestart == /\ hash' = "none" /\ told' = "none" /\ Disturbs
                      /\ UNCHANGED <<env, call, deploy>>

(* The steps that add no record to stream:control, and those that do. *)
Quietly == \/ \E o \in Operator, v \in Flag : Ask(o, v)
           \/ \E o \in Operator : WriteHash(o) \/ TellFails(o, FALSE)
           \/ \E o \in Operator, landed \in BOOLEAN : HashFails(o, landed)
           \/ DeployReads \/ DeployLooks \/ DeployAppends
           \/ \E landed \in BOOLEAN : DeployHash(landed)
           \/ DeployTells(FALSE)

Aloud == \/ \E o \in Operator : Tell(o) \/ TellFails(o, TRUE)
         \/ DeployTells(TRUE)

SwitchNext == Quietly \/ Aloud \/ SwitchKill \/ SwitchRedisRestart

-----------------------------------------------------------------------------
(* Once a change of the switch has made all its writes with no other        *)
(* request, deployment, failed call or restart in between, the hash the     *)
(* execution agent reads and the record the pages were told say the same;   *)
(* after a request so does .env, whichever way it is read. A deployment     *)
(* leaves what it read, the last line: if the lines differ, the dashboard,  *)
(* which reads the first, goes on showing something else. (live_arm,        *)
(* live_disarm, _publish_live_state; ensure_live_defaults of deploy/run.sh) *)
SwitchAgrees == /\ whole # "no" => told = hash /\ hash = GetEnvKv(env)
                /\ whole = "request" => hash = EnvGet(env)
=============================================================================
