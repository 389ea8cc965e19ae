--------------------------- MODULE DashboardProofs ---------------------------
(* Proofs about the dashboard server, for any number of operators,         *)
(* connections and records: the places of the live switch agree after an   *)
(* undisturbed change, and the hub delivers what it passes.                *)
EXTENDS Dashboard, FiniteSetTheorems, TLAPS

-----------------------------------------------------------------------------
(* The live switch: what holds while a change runs by itself.               *)

CallInv == \A o \in Operator : call[o].at # "idle" =>
             /\ deploy.at = "idle"
             /\ \A q \in Operator : call[q].at # "idle" => q = o
             /\ env # <<>> /\ \A i \in 1..Len(env) : env[i] = call[o].armed
             /\ call[o].at = "xadd" => hash = call[o].armed

DeployInv == /\ deploy.at \in {"look", "append"} => env = <<>>
             /\ deploy.at \in {"hset", "xadd"} => env # <<>> /\ env[Len(env)] = deploy.armed
             /\ deploy.at = "xadd" => hash = deploy.armed

SwitchInv == /\ SwitchTypeOK
             /\ whole # "no" => ~Busy
             /\ SwitchAgrees
             /\ alone => CallInv /\ DeployInv

LEMMA EnvSetLines ==
  ASSUME NEW lines \in Seq(Flag), NEW v \in Flag
  PROVE  /\ EnvSet(lines, v) \in Seq(Flag) /\ EnvSet(lines, v) # <<>>
         /\ \A i \in 1..Len(EnvSet(lines, v)) : EnvSet(lines, v)[i] = v
<1>1. CASE lines = <<>>
  BY <1>1 DEF EnvSet
<1>2. CASE lines # <<>>
  <2>1. EnvSet(lines, v) = [i \in 1..Len(lines) |-> v]
    BY <1>2 DEF EnvSet
  <2>2. Len(lines) \in Nat /\ Len(lines) > 0
    BY <1>2
  <2> QED
    BY <2>1, <2>2
<1> QED
  BY <1>1, <1>2

LEMMA SwitchInitInv == ASSUME NEW first \in Seq(Flag), SwitchInit(first) PROVE SwitchInv
<1>1. SwitchTypeOK
  BY DEF SwitchInit, SwitchTypeOK, Flag, At, DeployAt
<1> QED
  BY <1>1 DEF SwitchInit, SwitchInv, SwitchAgrees, CallInv, DeployInv

LEMMA SwitchStepInv ==
  ASSUME SwitchInv, [SwitchNext]_switch
  PROVE  SwitchInv'
<1> USE DEF Flag
<1>0. SwitchTypeOK
  BY DEF SwitchInv
<1>1. ASSUME NEW o \in Operator, NEW v \in Flag, Ask(o, v) PROVE SwitchInv'
  <2> USE DEF Ask, Starts
  <2>0. EnvSet(env, v) \in Seq(Flag) /\ EnvSet(env, v) # <<>>
          /\ \A i \in 1..Len(EnvSet(env, v)) : EnvSet(env, v)[i] = v
    BY <1>0, EnvSetLines DEF SwitchTypeOK
  <2>1. SwitchTypeOK'
    BY <1>0, <1>1, <2>0 DEF SwitchTypeOK, At
  <2>2. whole' = "no"
    BY <1>1
  <2>3. ASSUME alone' PROVE CallInv' /\ DeployInv'
    <3>1. ~Busy
      BY <1>1, <2>3
    <3>2. deploy'.at = "idle" /\ deploy' = deploy
      BY <1>1, <3>1 DEF Busy
    <3>3. \A q \in Operator : q # o => call'[q].at = "idle"
      BY <1>0, <1>1, <3>1 DEF Busy, SwitchTypeOK
    <3>4. call'[o] = [at |-> "hset", armed |-> v] /\ env' = EnvSet(env, v)
      BY <1>0, <1>1 DEF SwitchTypeOK
    <3> QED
      BY <3>2, <3>3, <3>4, <2>0 DEF CallInv, DeployInv
  <2> QED
    BY <2>1, <2>2, <2>3 DEF SwitchInv, SwitchAgrees
<1>2. ASSUME NEW o \in Operator, WriteHash(o) PROVE SwitchInv'
  <2> USE DEF WriteHash, Goes
  <2>1. SwitchTypeOK'
    BY <1>0, <1>2 DEF SwitchTypeOK, At
  <2>2. /\ call'[o] = [at |-> "xadd", armed |-> call[o].armed]
        /\ \A q \in Operator \ {o} : call'[q] = call[q]
    BY <1>0, <1>2 DEF SwitchTypeOK
  <2>3. whole' = "no"
    BY <1>2 DEF SwitchInv, Busy
  <2>4. ASSUME alone' PROVE CallInv' /\ DeployInv'
    BY <1>0, <1>2, <2>2, <2>4 DEF SwitchInv, CallInv, DeployInv, SwitchTypeOK
  <2> QED
    BY <2>1, <2>3, <2>4 DEF SwitchInv, SwitchAgrees
<1>3. ASSUME NEW o \in Operator, NEW landed \in BOOLEAN,
             HashFails(o, landed) \/ TellFails(o, landed)
      PROVE  SwitchInv'
  <2>1. SwitchTypeOK'
    BY <1>0, <1>3 DEF SwitchTypeOK, HashFails, TellFails, Goes, Disturbs, At
  <2>2. whole' = "no" /\ ~alone'
    BY <1>3 DEF HashFails, TellFails, Disturbs
  <2> QED
    BY <2>1, <2>2 DEF SwitchInv, SwitchAgrees
<1>4. ASSUME NEW o \in Operator, Tell(o) PROVE SwitchInv'
  <2> USE DEF Tell, Goes
  <2>1. SwitchTypeOK'
    BY <1>0, <1>4 DEF SwitchTypeOK, SwitchInv, At
  <2>2. /\ call'[o] = [at |-> "idle", armed |-> call[o].armed]
        /\ \A q \in Operator \ {o} : call'[q] = call[q]
    BY <1>0, <1>4 DEF SwitchTypeOK
  <2>3. ASSUME alone
        PROVE  ~Busy' /\ hash = call[o].armed /\ env # <<>>
               /\ \A i \in 1..Len(env) : env[i] = call[o].armed
    <3>1. CallInv /\ call[o].at = "xadd"
      BY <1>4, <2>3 DEF SwitchInv
    <3>2. \A q \in Operator : call'[q].at = "idle"
      BY <1>0, <2>2, <3>1 DEF CallInv, SwitchTypeOK
    <3> QED
      BY <1>4, <3>1, <3>2 DEF CallInv, Busy
  <2>4. ASSUME alone PROVE SwitchAgrees'
    <3>1. env \in Seq(Flag) /\ env # <<>> /\ env' = env
      BY <1>0, <1>4, <2>3, <2>4 DEF SwitchTypeOK
    <3>2. Len(env) \in Nat /\ Len(env) >= 1
      BY <3>1
    <3>3. env[1] = call[o].armed /\ env[Len(env)] = call[o].armed
      BY <2>3, <2>4, <3>2
    <3> QED
      BY <1>4, <2>3, <2>4, <3>1, <3>3 DEF SwitchAgrees, EnvGet, GetEnvKv
  <2>5. ASSUME alone PROVE CallInv' /\ DeployInv'
    BY <1>0, <1>4, <2>2, <2>3, <2>5 DEF SwitchInv, CallInv, DeployInv, Busy
  <2>6. alone' = alone /\ whole' = IF alone THEN "request" ELSE "no"
    BY <1>4
  <2> QED
    BY <2>1, <2>3, <2>4, <2>5, <2>6 DEF SwitchInv, SwitchAgrees
<1>5. CASE DeployReads
  <2> USE DEF DeployReads, Starts
  <2>1. GetEnvKv(env) \in Flag \cup {"none"} /\ (GetEnvKv(env) = "none" <=> env = <<>>)
    <3>1. env \in Seq(Flag)
      BY <1>0 DEF SwitchTypeOK
    <3>2. CASE env = <<>>
      BY <3>2 DEF GetEnvKv
    <3>3. CASE env # <<>>
      <4>1. Len(env) \in 1..Len(env)
        BY <3>1, <3>3
      <4>2. env[Len(env)] \in Flag
        BY <3>1, <4>1
      <4> QED
        BY <3>3, <4>2 DEF GetEnvKv
    <3> QED
      BY <3>2, <3>3
  <2>2. SwitchTypeOK'
    BY <1>0, <1>5, <2>1 DEF SwitchTypeOK, DeployAt, Default
  <2>3. ASSUME alone' PROVE CallInv' /\ DeployInv'
    <3>1. ~Busy
      BY <1>5, <2>3
    <3>2. CallInv'
      BY <1>5, <3>1 DEF Busy, CallInv
    <3>3. DeployInv'
      BY <1>5, <2>1 DEF DeployInv, Default, GetEnvKv
    <3> QED
      BY <3>2, <3>3
  <2>4. whole' = "no"
    BY <1>5
  <2> QED
    BY <2>2, <2>3, <2>4 DEF SwitchInv, SwitchAgrees

<1>6. CASE DeployLooks
  <2> USE DEF DeployLooks
  <2>1. whole' = "no"
    BY <1>6 DEF SwitchInv, Busy
  <2>2. CASE env = <<>>
    <3>1. deploy' = [at |-> "append", armed |-> deploy.armed] /\ env' = env
      BY <1>0, <1>6, <2>2 DEF SwitchTypeOK
    <3>2. SwitchTypeOK'
      BY <1>0, <1>6, <3>1 DEF SwitchTypeOK, DeployAt
    <3>3. alone' => CallInv' /\ DeployInv'
      BY <1>6, <2>2, <3>1 DEF SwitchInv, CallInv, DeployInv
    <3> QED
      BY <2>1, <3>2, <3>3 DEF SwitchInv, SwitchAgrees
  <2>3. CASE env # <<>>
    <3>1. deploy' = [at |-> "hset", armed |-> deploy.armed]
          /\ env' = SetEnvKv(env, deploy.armed)
      BY <1>0, <1>6, <2>3 DEF SwitchTypeOK
    <3>2. env' \in Seq(Flag)
      BY <1>0, <2>3, <3>1 DEF SwitchTypeOK, SetEnvKv
    <3>3. SwitchTypeOK'
      BY <1>0, <1>6, <3>1, <3>2 DEF SwitchTypeOK, DeployAt
    <3>4. ~alone'
      BY <1>6, <2>3 DEF SwitchInv, DeployInv
    <3> QED
      BY <2>1, <3>3, <3>4 DEF SwitchInv, SwitchAgrees
  <2> QED
    BY <2>2, <2>3
<1>7. CASE DeployAppends
  <2> USE DEF DeployAppends
  <2>1. whole' = "no"
    BY <1>7 DEF SwitchInv, Busy
  <2>2. deploy' = [at |-> "hset", armed |-> deploy.armed] /\ deploy.armed \in Flag
    BY <1>0, <1>7 DEF SwitchTypeOK
  <2>3. /\ env' \in Seq(Flag) /\ env' # <<>>
        /\ env'[Len(env')] = deploy.armed
    BY <1>0, <1>7, <2>2 DEF SwitchTypeOK
  <2>4. SwitchTypeOK'
    BY <1>0, <1>7, <2>2, <2>3 DEF SwitchTypeOK, DeployAt
  <2>5. alone' => CallInv' /\ DeployInv'
    BY <1>7, <2>2, <2>3 DEF SwitchInv, CallInv, DeployInv
  <2> QED
    BY <2>1, <2>4, <2>5 DEF SwitchInv, SwitchAgrees
<1>8. ASSUME NEW landed \in BOOLEAN, DeployHash(landed) PROVE SwitchInv'
  <2> USE DEF DeployHash, Disturbs
  <2>1. whole' = "no"
    BY <1>8 DEF SwitchInv, Busy
  <2>2. deploy' = [at |-> "xadd", armed |-> deploy.armed]
    BY <1>0, <1>8 DEF SwitchTypeOK
  <2>3. SwitchTypeOK'
    BY <1>0, <1>8, <2>2 DEF SwitchTypeOK, DeployAt
  <2>4. alone' => CallInv' /\ DeployInv'
    BY <1>8, <2>2 DEF SwitchInv, CallInv, DeployInv
  <2> QED
    BY <2>1, <2>3, <2>4 DEF SwitchInv, SwitchAgrees
<1>9. ASSUME NEW landed \in BOOLEAN, DeployTells(landed) PROVE SwitchInv'
  <2> USE DEF DeployTells
  <2>1. deploy' = [at |-> "idle", armed |-> deploy.armed]
    BY <1>0, <1>9 DEF SwitchTypeOK
  <2>2. SwitchTypeOK'
    BY <1>0, <1>9, <2>1 DEF SwitchTypeOK, DeployAt
  <2>3. alone => CallInv' /\ DeployInv'
    BY <1>9, <2>1 DEF SwitchInv, CallInv, DeployInv
  <2>4. ASSUME whole' # "no" PROVE ~Busy' /\ SwitchAgrees'
    <3>1. alone /\ landed /\ whole' = "deploy"
      BY <1>9, <2>4
    <3>2. CallInv /\ DeployInv
      BY <3>1 DEF SwitchInv
    <3>3. ~Busy'
      BY <1>9, <2>1, <3>2 DEF CallInv, Busy
    <3>4. env # <<>> /\ hash = deploy.armed /\ env[Len(env)] = deploy.armed
      BY <1>9, <3>1, <3>2 DEF DeployInv
    <3>5. SwitchAgrees'
      BY <1>9, <3>1, <3>4 DEF SwitchAgrees, EnvGet, GetEnvKv
    <3> QED
      BY <3>3, <3>5
  <2>5. alone' = alone
    BY <1>9
  <2> QED
    BY <2>2, <2>3, <2>4, <2>5 DEF SwitchInv, SwitchAgrees
<1>10. CASE SwitchKill
  <2> USE DEF SwitchKill, Disturbs
  <2>1. \A o \in Operator : call'[o] = [at |-> "idle", armed |-> call[o].armed]
    BY <1>0, <1>10 DEF SwitchTypeOK
  <2>2. SwitchTypeOK'
    BY <1>0, <1>10, <2>1 DEF SwitchTypeOK, At
  <2>3. whole' # "no" => whole' = whole /\ ~Busy
    BY <1>10 DEF SwitchInv
  <2>4. whole' # "no" => ~Busy' /\ SwitchAgrees'
    BY <1>10, <2>1, <2>3 DEF SwitchInv, SwitchAgrees, Busy, EnvGet, GetEnvKv
  <2>5. alone' => CallInv' /\ DeployInv'
    BY <1>10, <2>1 DEF SwitchInv, CallInv, DeployInv
  <2> QED
    BY <2>2, <2>4, <2>5 DEF SwitchInv, SwitchAgrees
<1>11. CASE SwitchRedisRestart
  <2>1. SwitchTypeOK'
    BY <1>0, <1>11 DEF SwitchRedisRestart, SwitchTypeOK, Disturbs
  <2>2. whole' = "no" /\ ~alone'
    BY <1>11 DEF SwitchRedisRestart, Disturbs
  <2> QED
    BY <2>1, <2>2 DEF SwitchInv, SwitchAgrees
<1>12. CASE UNCHANGED switch
  BY <1>12 DEF switch, SwitchInv, SwitchTypeOK, SwitchAgrees, Busy, CallInv, DeployInv,
               EnvGet, GetEnvKv
<1> QED
  BY <1>1, <1>2, <1>3, <1>4, <1>5, <1>6, <1>7, <1>8, <1>9, <1>10, <1>11, <1>12
     DEF SwitchNext, Quietly, Aloud

LEMMA NextChangesSwitch == ASSUME Next PROVE [SwitchNext]_switch
<1>1. CASE PumpStep
  BY <1>1 DEF PumpStep
<1>2. CASE SockStep
  BY <1>2 DEF SockStep
<1>3. CASE SwitchStep
  BY <1>3 DEF SwitchStep, SwitchNext, Quietly, Aloud
<1>4. CASE Trade
  BY <1>4 DEF Trade
<1>5. CASE Fault
  BY <1>5 DEF Fault, SwitchNext
<1> QED
  BY <1>1, <1>2, <1>3, <1>4, <1>5 DEF Next

LEMMA SwitchInvariant == Spec => []SwitchInv
<1>1. Init => SwitchInv
  BY SwitchInitInv, DashboardAssumption DEF Init
<1>2. SwitchInv /\ [Next]_vars => SwitchInv'
  <2>1. ASSUME SwitchInv, Next PROVE SwitchInv'
    BY <2>1, NextChangesSwitch, SwitchStepInv
  <2>2. ASSUME SwitchInv, UNCHANGED vars PROVE SwitchInv'
    BY <2>2, SwitchStepInv DEF vars
  <2> QED
    BY <2>1, <2>2
<1> QED
  BY <1>1, <1>2, PTL DEF Spec

(* The places of the live switch agree after every request that ran by      *)
(* itself to its end, and after every such deployment with the last line of *)
(* .env, for any number of operators and any lines .env has at first        *)
(* (SwitchAgrees: live_arm, live_disarm, ensure_live_defaults).             *)
THEOREM SwitchStaysTheSame == Spec => []SwitchAgrees
<1>1. SwitchInv => SwitchAgrees
  BY DEF SwitchInv
<1> QED
  BY <1>1, SwitchInvariant, PTL

-----------------------------------------------------------------------------
(* Types of the hub.                                                        *)

LEMMA SockFinite == \A S \in SUBSET Sock : IsFiniteSet(S) /\ Cardinality(S) \in Nat
<1>1. IsFiniteSet(Sock)
  BY DashboardAssumption, FS_Interval, 1 \in Int, MaxSock \in Int DEF Sock
<1> QED
  BY <1>1, FS_Subset, FS_CardinalityType

LEMMA SpanRecords ==
  ASSUME NEW s \in Streams, NEW a \in Nat, NEW b \in Nat
  PROVE  /\ Span(s, a + 1, b) \subseteq Record
         /\ \A i \in Nat : <<s, i>> \in Span(s, a + 1, b) <=> a < i /\ i <= b
BY DEF Span, Record

LEMMA FirstAndLast ==
  ASSUME HubTypeOK, NEW s \in Streams
  PROVE  First(s) \in Nat /\ Last(s) \in Nat /\ Resume(s) \in Nat
BY DashboardAssumption DEF HubTypeOK, First, Last, Resume

LEMMA NextRecordType ==
  ASSUME HubTypeOK, NEW act \in SUBSET Sock, NextRecord(act)
  PROVE  /\ cursor' \in [Streams -> Nat] /\ upto' \in [Streams -> Nat]
         /\ fromNow' \subseteq Streams /\ pump' \in PumpAt
         /\ sent' \in Record /\ size' \in Nat /\ stirred' \in Stirred
         /\ cur' \subseteq Sock /\ todo' \subseteq Sock /\ dead' \subseteq Sock
<1>1. CASE act = {} \/ Answered = {}
  BY <1>1 DEF NextRecord, HubTypeOK, PumpAt, Answered
<1>2. ASSUME NEW s \in Answered, NEW c \in act,
             /\ pump' = "send"
             /\ cursor' = [cursor EXCEPT ![s] = @ + 1] /\ fromNow' = fromNow \ {s}
             /\ sent' = <<s, cursor[s] + 1>>
             /\ size' = Cardinality(act) /\ stirred' = "still"
             /\ cur' = {c} /\ todo' = act \ {c} /\ dead' = {}
             /\ UNCHANGED upto
      PROVE  /\ cursor' \in [Streams -> Nat] /\ upto' \in [Streams -> Nat]
             /\ fromNow' \subseteq Streams /\ pump' \in PumpAt
             /\ sent' \in Record /\ size' \in Nat /\ stirred' \in Stirred
             /\ cur' \subseteq Sock /\ todo' \subseteq Sock /\ dead' \subseteq Sock
  <2>1. s \in Streams /\ cursor[s] \in Nat
    BY <1>2 DEF HubTypeOK, Answered
  <2>2. size' \in Nat
    BY <1>2, SockFinite
  <2> QED
    BY <1>2, <2>1, <2>2 DEF HubTypeOK, PumpAt, Record, Stirred
<1> QED
  BY <1>1, <1>2 DEF NextRecord

LEMMA RaisesType ==
  ASSUME HubTypeOK, Raises
  PROVE  /\ cursor' \in [Streams -> Nat] /\ upto' \in [Streams -> Nat]
         /\ fromNow' \subseteq Streams /\ pump' \in PumpAt
         /\ sent' \in Record /\ size' \in Nat /\ stirred' \in Stirred
         /\ cur' \subseteq Sock /\ todo' \subseteq Sock /\ dead' \subseteq Sock
         /\ lost' \subseteq Record
<1>1. cursor' \in [Streams -> Nat]
  BY FirstAndLast DEF Raises
<1>2. Forsaken \subseteq Record
  <2> SUFFICES ASSUME NEW r \in Forsaken PROVE r \in Record
    OBVIOUS
  <2>1. PICK s \in Streams :
          r \in Span(s, cursor[s] + 1, IF s \in fromNow THEN added[s] ELSE trimmed[s])
    BY DEF Forsaken
  <2> QED
    BY <2>1, SpanRecords DEF HubTypeOK
<1> QED
  BY <1>1, <1>2 DEF Raises, HubTypeOK, PumpAt

LEMMA PublishType ==
  ASSUME HubTypeOK, NEW s \in Streams, Publish(s), budget' \in [Kinds -> Nat]
  PROVE  HubTypeOK'
<1>1. added[s] \in Nat /\ trimmed[s] \in Nat /\ upto[s] \in Nat /\ Keep \in Nat
  BY DashboardAssumption DEF HubTypeOK
<1>2. PICK t \in MayTrim(s) :
        /\ trimmed' = [trimmed EXCEPT ![s] = t]
        /\ lost' = lost \cup Span(s, upto[s] + 1, t) \cup Skipped(s)
  BY DEF Publish
<1>3. t \in Nat /\ Skipped(s) \subseteq Record
  BY <1>1 DEF Record, MayTrim, Skipped
<1>4. trimmed' \in [Streams -> Nat] /\ lost' \subseteq Record
  BY <1>1, <1>2, <1>3, SpanRecords DEF HubTypeOK
<1>5. added' \in [Streams -> Nat]
  BY <1>1 DEF Publish, HubTypeOK
<1>6. cursor' \in [Streams -> Nat] /\ upto' \in [Streams -> Nat]
  BY <1>1 DEF Publish, HubTypeOK
<1> QED
  BY <1>4, <1>5, <1>6 DEF Publish, HubTypeOK, socks, PumpAt

LEMMA SpendType ==
  ASSUME HubTypeOK, NEW k \in Kinds, Spend(k) PROVE budget' \in [Kinds -> Nat]
BY DEF HubTypeOK, Spend

LEMMA PumpStepType == ASSUME HubTypeOK, PumpStep PROVE HubTypeOK'
<1>0. UNCHANGED <<added, trimmed, at, gone, past, since, budget>>
  BY DEF PumpStep, redis
<1>1. CASE Read /\ UNCHANGED <<active, heard, lost>>
  BY <1>0, <1>1, FirstAndLast DEF Read, HubTypeOK, PumpAt, heard
<1>2. CASE (ReadTimesOut \/ Wakes) /\ UNCHANGED <<active, heard, lost>>
  BY <1>0, <1>2 DEF ReadTimesOut, Wakes, HubTypeOK, PumpAt, heard
<1>3. CASE Begin /\ UNCHANGED <<active, heard, lost>>
  <2>1. active \in SUBSET Sock
    BY DEF HubTypeOK
  <2> QED
    BY <1>0, <1>3, <2>1, NextRecordType DEF Begin, HubTypeOK, heard
<1>4. ASSUME NEW c \in Sock, SendEnds(c) PROVE HubTypeOK'
  <2>1. /\ got' = IF c \in gone THEN got ELSE [got EXCEPT ![c] = @ \cup {sent}]
        /\ twice' = (twice \/ (stirred = "still" /\ c \notin gone
                            /\ \E r \in got[c] : r[1] = sent[1] /\ r[2] >= sent[2]))
    BY <1>4 DEF SendEnds
  <2>2. got' \in [Sock -> SUBSET Record]
    BY <2>1 DEF HubTypeOK
  <2>3. twice' \in BOOLEAN
    BY <2>1, ZenonT(10) DEF HubTypeOK
  <2>4. CASE Raises /\ UNCHANGED active
    BY <1>0, <2>2, <2>3, <2>4, RaisesType DEF HubTypeOK
  <2>5. CASE \E rest \in Rests :
                IF rest = {} THEN active' = active \ (dead \cup ({c} \cap gone))
                                  /\ NextRecord(active')
                ELSE NextSocket(rest, dead \cup ({c} \cap gone)) /\ UNCHANGED active
    <3>0. UNCHANGED lost \/ Raises
      BY <1>4 DEF SendEnds
    <3>1. PICK rest \in Rests :
                IF rest = {} THEN active' = active \ (dead \cup ({c} \cap gone))
                                  /\ NextRecord(active')
                ELSE NextSocket(rest, dead \cup ({c} \cap gone)) /\ UNCHANGED active
      BY <2>5
    <3>2. rest \subseteq Sock
      BY <3>1 DEF Rests, HubTypeOK
    <3>3. lost' \subseteq Record
      BY <3>0, RaisesType DEF HubTypeOK
    <3>4. CASE rest = {}
      <4>1. active' \in SUBSET Sock
        BY <3>1, <3>4 DEF HubTypeOK
      <4> QED
        BY <1>0, <2>2, <2>3, <3>1, <3>3, <3>4, <4>1, NextRecordType DEF HubTypeOK
    <3>5. CASE rest # {}
      BY <1>0, <2>2, <2>3, <3>1, <3>2, <3>3, <3>5
         DEF NextSocket, HubTypeOK, Stirred
    <3> QED
      BY <3>4, <3>5
  <2> QED
    BY <1>4, <2>4, <2>5 DEF SendEnds
<1> QED
  BY <1>1, <1>2, <1>3, <1>4 DEF PumpStep

LEMMA SockStepType == ASSUME HubTypeOK, SockStep PROVE HubTypeOK'
<1>0. UNCHANGED <<added, trimmed, got, twice>> /\ sent \in Record
  BY DEF SockStep, redis, heard, HubTypeOK
<1>1. budget' \in [Kinds -> Nat]
  BY SpendType DEF SockStep, Kinds, HubTypeOK
<1>2. ASSUME NEW c \in Sock, Connect(c) \/ Vanish(c) \/ Leave(c) PROVE HubTypeOK'
  <2>1. stirred' \in Stirred /\ lost' \subseteq Record
    BY <1>0, <1>2 DEF Connect, Vanish, Leave, Stir, hub, HubTypeOK, Stirred
  <2>2. UNCHANGED Pumping
    BY <1>2 DEF Connect, Vanish, Leave, Pumping, hub
  <2> QED
    BY <1>0, <1>1, <1>2, <2>1, <2>2 DEF Connect, Vanish, Leave, Pumping, HubTypeOK, SockAt
<1>3. ASSUME NEW c \in Sock, SendStatus(c) \/ FetchFails(c) \/ SendPast(c) PROVE HubTypeOK'
  BY <1>0, <1>1, <1>3 DEF SendStatus, FetchFails, SendPast, hub, HubTypeOK, SockAt
<1>4. ASSUME NEW c \in Sock, Fetch(c) PROVE HubTypeOK'
  <2>1. added["trades"] \in Nat /\ trimmed["trades"] \in Nat /\ Oldest(HistMax) \in Nat
    BY DashboardAssumption DEF HubTypeOK, Oldest, Streams
  <2> QED
    BY <1>0, <1>1, <1>4, <2>1 DEF Fetch, hub, HubTypeOK, SockAt
<1> QED
  BY <1>2, <1>3, <1>4 DEF SockStep

LEMMA SwitchStepType == ASSUME HubTypeOK, SwitchStep PROVE HubTypeOK'
<1>1. budget' \in [Kinds -> Nat]
  BY SpendType DEF SwitchStep, Kinds, HubTypeOK
<1>2. CASE UNCHANGED <<redis, hub, socks, heard, lost>>
  BY <1>1, <1>2 DEF HubTypeOK, redis, hub, socks, heard
<1>3. CASE Publish("control")
  BY <1>1, <1>3, PublishType DEF Streams
<1> QED
  BY <1>2, <1>3 DEF SwitchStep

LEMMA FaultType == ASSUME HubTypeOK, Fault PROVE HubTypeOK'
<1>0. UNCHANGED <<added, got, twice, socks>> \/ HubKill
  BY DEF Fault, redis, heard
<1>1. budget' \in [Kinds -> Nat]
  BY SpendType DEF Fault, Kinds
<1>2. \A s \in Streams : UNION {Span(z, cursor[z] + 1, added[z]) : z \in Streams} \subseteq Record
                         /\ UNION {Span(z, upto[z] + 1, added[z]) : z \in Streams} \subseteq Record
  BY SpanRecords DEF HubTypeOK
<1>3. CASE ReadFails /\ UNCHANGED <<redis, socks, heard>>
  BY <1>1, <1>3, RaisesType DEF ReadFails, HubTypeOK, redis, socks, heard
<1>4. CASE HubKill /\ UNCHANGED <<redis, heard>>
  BY <1>1, <1>2, <1>4 DEF HubKill, HubTypeOK, PumpAt, SockAt, redis, heard, Streams
<1>5. CASE HubRedisRestart /\ UNCHANGED <<added, socks, heard>>
  BY <1>1, <1>2, <1>5 DEF HubRedisRestart, HubTypeOK, PumpAt, socks, heard, Streams
<1> QED
  BY <1>3, <1>4, <1>5 DEF Fault

LEMMA HubType == ASSUME HubTypeOK, [Next]_vars PROVE HubTypeOK'
<1>1. CASE PumpStep
  BY <1>1, PumpStepType
<1>2. CASE SockStep
  BY <1>2, SockStepType
<1>3. CASE SwitchStep
  BY <1>3, SwitchStepType
<1>4. CASE Trade
  BY <1>4, PublishType, SpendType DEF Trade, Streams, Kinds
<1>5. CASE Fault
  BY <1>5, FaultType
<1>6. CASE UNCHANGED vars
  BY <1>6 DEF vars, hub, socks, HubTypeOK
<1> QED
  BY <1>1, <1>2, <1>3, <1>4, <1>5, <1>6 DEF Next

LEMMA HubInitType == ASSUME Init PROVE HubTypeOK
BY DashboardAssumption DEF Init, HubTypeOK, PumpAt, Record, Streams, Stirred, SockAt

(* Every variable of the dashboard server and of its switch keeps its type. *)
THEOREM DashboardType == Spec => []TypeOK
<1>1. Init => HubTypeOK
  BY HubInitType
<1>2. HubTypeOK /\ [Next]_vars => HubTypeOK'
  BY HubType
<1>3. SwitchInv => SwitchTypeOK
  BY DEF SwitchInv
<1>4. Spec => []HubTypeOK
  BY <1>1, <1>2, PTL DEF Spec
<1>5. SwitchTypeOK /\ HubTypeOK => TypeOK
  BY DEF TypeOK
<1> QED
  BY <1>3, <1>4, <1>5, SwitchInvariant, PTL

-----------------------------------------------------------------------------
(* The hub: what its steps keep, so that what they pass is delivered.       *)

Positions == \A s \in Streams : /\ cursor[s] <= upto[s] /\ upto[s] <= added[s]
                                /\ trimmed[s] <= added[s]

AtNow == \A s \in fromNow :
           \/ cursor[s] = upto[s] /\ cursor[s] = added[s]
           \/ /\ pump = "answered" /\ cursor[s] < upto[s]
              /\ \A z \in Streams \ {s} : cursor[z] = upto[z]

Quiet == pump \in {"read", "blocked", "sleep"} => \A s \in Streams : cursor[s] = upto[s]

Blocked == pump = "blocked" => \A s \in Streams : cursor[s] = added[s]

TrimmedAway == \A s \in Streams, i \in Nat :
                 upto[s] < i /\ i <= trimmed[s] => <<s, i>> \in lost

Sending == pump = "send" =>
             /\ sent[2] <= cursor[sent[1]] /\ cur \cap todo = {}
             /\ stirred # "still" => sent \in lost
             /\ stirred = "still" =>
                  /\ size = Cardinality(active)
                  /\ \A d \in cur \cup todo : \A r \in got[d] : r[1] = sent[1] => r[2] < sent[2]

Heard == \A c \in Sock : \A r \in got[c] : r[2] <= cursor[r[1]]

Members == dead \subseteq gone /\ \A c \in Sock : Connected(c) => c \in active

Joined == \A c \in Sock, s \in Streams : since[c][s] <= cursor[s]

PastRead == \A c \in Sock : at[c] \in {"history", "listen"} =>
              /\ past[c].from <= trimmed["trades"] /\ since[c]["trades"] <= past[c].seen
              /\ past[c].to = past[c].seen \/ past[c].to = past[c].from + HistMax

Delivered == \A c \in Sock, s \in Streams, i \in Nat :
               Connected(c) /\ since[c][s] < i /\ i <= cursor[s] =>
                 <<s, i>> \in got[c] \cup lost \/ InHand(c, <<s, i>>)

Hub == Positions /\ AtNow /\ Quiet /\ Blocked /\ TrimmedAway /\ Sending /\ Heard
Pages == Members /\ Joined /\ PastRead /\ Delivered /\ ~twice
HubInv == HubTypeOK /\ Hub /\ Pages

LEMMA RecordParts == \A r \in Record : r[1] \in Streams /\ r[2] \in Nat /\ r = <<r[1], r[2]>>
BY DEF Record

LEMMA PublishInv ==
  ASSUME HubInv, HubTypeOK', NEW s \in Streams, Publish(s)
  PROVE  Hub' /\ Pages'
<1> USE DEF Hub, Pages, HubInv
<1>1. /\ added[s] \in Nat /\ trimmed[s] \in Nat /\ upto[s] \in Nat /\ cursor[s] \in Nat
      /\ Keep \in Nat \ {0}
  BY DashboardAssumption DEF HubTypeOK
<1>2. PICK t \in MayTrim(s) :
        /\ trimmed' = [trimmed EXCEPT ![s] = t]
        /\ lost' = lost \cup Span(s, upto[s] + 1, t) \cup Skipped(s)
  BY DEF Publish
<1>3. t \in Nat /\ trimmed[s] <= t /\ t <= added[s] + 1
  BY <1>1 DEF MayTrim, Positions
<1>4. \A z \in Streams \ {s} : /\ added'[z] = added[z] /\ trimmed'[z] = trimmed[z]
                               /\ cursor'[z] = cursor[z] /\ upto'[z] = upto[z]
  BY <1>2 DEF Publish, HubTypeOK
<1>5. added'[s] = added[s] + 1 /\ trimmed'[s] = t
  BY <1>2 DEF Publish, HubTypeOK
<1>6. cursor[s] <= upto[s] /\ upto[s] <= added[s]
  BY DEF Positions
<1>7. /\ lost \subseteq lost'
      /\ \A i \in Nat : upto[s] < i /\ i <= t => <<s, i>> \in lost'
  BY <1>1, <1>2, <1>3, SpanRecords
<1>8. \A z \in Streams : added[z] \in Nat /\ cursor[z] \in Nat /\ upto[z] \in Nat
                         /\ trimmed[z] \in Nat /\ cursor'[z] \in Nat /\ upto'[z] \in Nat
  BY DEF HubTypeOK
<1>9. /\ cursor[s] <= cursor'[s] /\ cursor'[s] <= upto'[s] /\ upto'[s] <= added[s] + 1
      /\ upto[s] <= upto'[s]
      /\ \A i \in Nat : cursor[s] < i /\ i <= cursor'[s] => <<s, i>> \in lost'
      /\ AtNow' /\ Quiet' /\ Blocked'
  <2>1. CASE Unasked(s)
    <3>1. cursor'[s] = added[s] + 1 /\ upto'[s] = added[s] + 1 /\ pump' = pump
      BY <2>1 DEF Publish, HubTypeOK, Unasked
    <3>2. s \in fromNow /\ cursor[s] = upto[s] /\ cursor[s] = added[s] /\ pump # "blocked"
      BY <1>1, <2>1 DEF Unasked, Waiting, AtNow
    <3>3. <<s, added[s] + 1>> \in lost'
      BY <1>2, <2>1 DEF Skipped
    <3>4. AtNow'
      BY <1>1, <1>4, <1>5, <1>8, <3>1, <3>2 DEF AtNow, Publish, HubTypeOK
    <3>5. Quiet' /\ Blocked'
      BY <1>4, <3>1, <3>2 DEF Quiet, Blocked
    <3> QED
      BY <1>1, <1>6, <3>1, <3>2, <3>3, <3>4, <3>5
  <2>2. CASE ~Unasked(s) /\ pump # "blocked"
    <3>1. cursor' = cursor /\ upto' = upto /\ pump' = pump
      BY <2>2 DEF Publish
    <3>2. ~(s \in fromNow /\ upto[s] = cursor[s])
      BY <2>2 DEF Unasked, Waiting
    <3>3. AtNow'
      BY <1>4, <1>8, <3>1, <3>2 DEF AtNow, Publish, HubTypeOK
    <3> QED
      BY <1>1, <1>6, <2>2, <3>1, <3>3 DEF Quiet, Blocked
  <2>3. CASE pump = "blocked"
    <3>1. cursor' = cursor /\ upto'[s] = added[s] + 1 /\ pump' = "answered"
      BY <2>3 DEF Publish, HubTypeOK, Unasked
    <3>2. \A z \in Streams : cursor[z] = upto[z] /\ cursor[z] = added[z]
      BY <2>3 DEF Quiet, Blocked
    <3>3. AtNow'
      BY <1>1, <1>4, <1>5, <1>8, <3>1, <3>2 DEF AtNow, Publish, HubTypeOK
    <3> QED
      BY <1>1, <1>6, <3>1, <3>3 DEF Quiet, Blocked
  <2> QED
    BY <2>1, <2>2, <2>3 DEF Unasked
<1>10. Positions'
  <2>1. \A z \in Streams \ {s} : cursor'[z] <= upto'[z] /\ upto'[z] <= added'[z]
                                 /\ trimmed'[z] <= added'[z]
    BY <1>4 DEF Positions
  <2> QED
    BY <1>1, <1>3, <1>5, <1>9, <2>1 DEF Positions
<1>11. TrimmedAway'
  BY <1>1, <1>3, <1>4, <1>5, <1>7, <1>8, <1>9 DEF TrimmedAway
<1>12. \A z \in Streams : cursor[z] <= cursor'[z]
  BY <1>4, <1>8, <1>9
<1>13. Sending'
  <2>1. pump' = "send" => pump = "send"
    BY DEF Publish
  <2> QED
    BY <1>7, <1>8, <1>12, <2>1, RecordParts DEF Sending, Publish, socks, HubTypeOK
<1>14. Heard' /\ Joined'
  BY <1>8, <1>12, RecordParts DEF Heard, Joined, Publish, socks, HubTypeOK
<1>15. Delivered'
  <2>1. \A z \in Streams, i \in Nat :
          i <= cursor'[z] /\ ~(i <= cursor[z]) => <<z, i>> \in lost'
    BY <1>4, <1>8, <1>9
  <2>2. pump = "send" => pump' = "send"
    BY DEF Publish
  <2> QED
    BY <1>7, <2>1, <2>2 DEF Delivered, Publish, socks, Connected, InHand
<1>16. PastRead' /\ Members' /\ ~twice'
  BY <1>3, <1>4, <1>5, <1>8 DEF PastRead, Members, Publish, socks, Connected, HubTypeOK, Streams
<1> QED
  BY <1>9, <1>10, <1>11, <1>13, <1>14, <1>15, <1>16

LEMMA HubNats ==
  ASSUME HubTypeOK
  PROVE  \A s \in Streams : /\ added[s] \in Nat /\ trimmed[s] \in Nat
                            /\ cursor[s] \in Nat /\ upto[s] \in Nat
BY DEF HubTypeOK

LEMMA ReadInv ==
  ASSUME HubInv, HubTypeOK', Read, UNCHANGED <<redis, active, heard, lost, at, gone, past, since>>
  PROVE  Hub' /\ Pages'
<1> USE DEF Hub, Pages, HubInv
<1>0. UNCHANGED <<added, trimmed, active, got, twice, lost, at, gone, past, since>>
  BY DEF redis, heard
<1>1. \A s \in Streams : /\ added[s] \in Nat /\ trimmed[s] \in Nat /\ cursor[s] \in Nat
                         /\ upto[s] = cursor[s] /\ cursor[s] <= added[s]
                         /\ trimmed[s] <= added[s]
                         /\ s \in fromNow => cursor[s] = added[s]
  BY HubNats DEF Read, Quiet, Positions, AtNow
<1>2. \A s \in Streams : /\ cursor'[s] = First(s) /\ upto'[s] = Last(s)
  BY DEF Read
<1>3. \A s \in Streams :
        /\ cursor[s] <= First(s) /\ First(s) <= Last(s) /\ Last(s) <= added[s]
        /\ First(s) \in Nat /\ Last(s) \in Nat
        /\ s \in fromNow => First(s) = Last(s) /\ First(s) = added[s]
        /\ trimmed[s] <= First(s) \/ s \in fromNow
        /\ First(s) = Last(s) => First(s) = added[s]
        /\ First(s) = cursor[s] \/ First(s) = trimmed[s]
  BY <1>1, DashboardAssumption DEF First, Last
<1>4. Positions'
  BY <1>0, <1>1, <1>2, <1>3 DEF Positions
<1>5. AtNow'
  BY <1>0, <1>2, <1>3 DEF AtNow, Read, HubTypeOK
<1>6. pump' = "answered" \/ (pump' = "blocked" /\ \A s \in Streams : First(s) = Last(s))
  BY <1>3 DEF Read
<1>7. Quiet' /\ Blocked' /\ Sending'
  BY <1>0, <1>2, <1>3, <1>6 DEF Quiet, Blocked, Sending
<1>8. TrimmedAway'
  BY <1>0, <1>1, <1>2, <1>3 DEF TrimmedAway
<1>9. Heard' /\ Joined'
  BY <1>0, <1>1, <1>2, <1>3, RecordParts DEF Heard, Joined, HubTypeOK
<1>10. Delivered'
  <2>1. \A s \in Streams, i \in Nat :
          i <= First(s) /\ ~(i <= cursor[s]) => <<s, i>> \in lost
    BY <1>1, <1>3 DEF TrimmedAway
  <2> QED
    BY <1>0, <1>2, <2>1 DEF Delivered, Connected, InHand, Read
<1>11. PastRead' /\ Members' /\ ~twice'
  BY <1>0 DEF PastRead, Members, Connected, Read
<1> QED
  BY <1>4, <1>5, <1>7, <1>8, <1>9, <1>10, <1>11

(* The next two are about what Raises and NextRecord do after a send has    *)
(* added to got: all that was passed before has been delivered or is lost.  *)
LEMMA RaisesInv ==
  ASSUME HubTypeOK, HubTypeOK', Positions, TrimmedAway, Joined, Raises,
         UNCHANGED <<added, trimmed, at, gone, since>>,
         \A c \in Sock : \A r \in got'[c] : r[2] <= cursor[r[1]],
         \A c \in Sock, s \in Streams, i \in Nat :
           Connected(c) /\ since[c][s] < i /\ i <= cursor[s] => <<s, i>> \in got'[c] \cup lost
  PROVE  Hub' /\ Joined' /\ Delivered' /\ dead' = {}
<1>1. \A s \in Streams : /\ added[s] \in Nat /\ trimmed[s] \in Nat /\ cursor[s] \in Nat
                         /\ cursor[s] <= added[s] /\ trimmed[s] <= added[s]
  BY HubNats DEF Positions
<1>2. \A s \in Streams : cursor'[s] = Resume(s) /\ upto'[s] = Resume(s)
  BY DEF Raises
<1>3. \A s \in Streams : /\ cursor[s] <= Resume(s) /\ Resume(s) <= added[s] /\ Resume(s) \in Nat
                         /\ s \in fromNow => Resume(s) = added[s]
                         /\ s \notin fromNow => Resume(s) = cursor[s]
  BY <1>1 DEF Resume
<1>4. \A s \in Streams, i \in Nat :
        cursor[s] < i /\ i <= (IF s \in fromNow THEN added[s] ELSE trimmed[s])
          => <<s, i>> \in Forsaken
  BY <1>1, SpanRecords DEF Forsaken
<1>5. pump' = "sleep" /\ lost' = lost \cup Forsaken /\ dead' = {} /\ fromNow' = fromNow
  BY DEF Raises
<1>6. Positions' /\ Quiet' /\ Blocked' /\ Sending'
  BY <1>1, <1>2, <1>3, <1>5 DEF Positions, Quiet, Blocked, Sending
<1>7. AtNow'
  BY <1>2, <1>3, <1>5 DEF AtNow, HubTypeOK
<1>8. TrimmedAway'
  BY <1>1, <1>2, <1>3, <1>4, <1>5 DEF TrimmedAway
<1>9. Heard' /\ Joined'
  BY <1>1, <1>2, <1>3, RecordParts DEF Heard, Joined, HubTypeOK
<1>10. Delivered'
  <2>1. \A s \in Streams, i \in Nat :
          i <= Resume(s) /\ ~(i <= cursor[s]) => <<s, i>> \in lost'
    BY <1>1, <1>3, <1>4, <1>5
  <2> QED
    BY <1>2, <1>5, <2>1 DEF Delivered, Connected
<1> QED
  BY <1>5, <1>6, <1>7, <1>8, <1>9, <1>10 DEF Hub

LEMMA NextRecordInv ==
  ASSUME HubTypeOK, HubTypeOK', Positions, AtNow, TrimmedAway, Joined,
         pump \in {"answered", "send"}, NEW act \in SUBSET Sock, NextRecord(act),
         active' = act, UNCHANGED <<added, trimmed, at, gone, since, lost>>,
         \A c \in Sock : Connected(c) => c \in act,
         \A c \in Sock : \A r \in got'[c] : r[2] <= cursor[r[1]],
         \A c \in Sock, s \in Streams, i \in Nat :
           Connected(c) /\ since[c][s] < i /\ i <= cursor[s] => <<s, i>> \in got'[c] \cup lost
  PROVE  Hub' /\ Joined' /\ Delivered' /\ dead' = {}
<1>1. \A s \in Streams : /\ added[s] \in Nat /\ trimmed[s] \in Nat /\ cursor[s] \in Nat
                         /\ upto[s] \in Nat /\ cursor[s] <= upto[s] /\ upto[s] <= added[s]
                         /\ trimmed[s] <= added[s]
                         /\ cursor'[s] \in Nat
  BY HubNats DEF Positions, HubTypeOK
<1>2. CASE act = {} /\ pump' = "read" /\ cursor' = upto /\ fromNow' = fromNow \ Answered
           /\ dead' = {} /\ UNCHANGED upto
  <2>1. Positions' /\ Quiet' /\ Blocked' /\ Sending'
    BY <1>1, <1>2 DEF Positions, Quiet, Blocked, Sending
  <2>2. AtNow'
    BY <1>1, <1>2 DEF AtNow, Answered, HubTypeOK
  <2>3. TrimmedAway'
    BY <1>2 DEF TrimmedAway
  <2>4. Heard' /\ Joined'
    BY <1>1, <1>2, RecordParts DEF Heard, Joined, HubTypeOK
  <2>5. Delivered'
    BY <1>2 DEF Delivered, Connected
  <2> QED
    BY <1>2, <2>1, <2>2, <2>3, <2>4, <2>5 DEF Hub
<1>3. CASE Answered = {} /\ pump' = "read" /\ cursor' = upto /\ fromNow' = fromNow \ Answered
           /\ dead' = {} /\ UNCHANGED upto
  <2>0. \A s \in Streams : cursor[s] = upto[s] /\ cursor'[s] = cursor[s]
    BY <1>1, <1>3 DEF Answered
  <2>1. Positions' /\ Quiet' /\ Blocked' /\ Sending'
    BY <1>1, <1>3 DEF Positions, Quiet, Blocked, Sending
  <2>2. AtNow'
    BY <1>1, <1>3, <2>0 DEF AtNow, HubTypeOK
  <2>3. TrimmedAway'
    BY <1>3 DEF TrimmedAway
  <2>4. Heard' /\ Joined'
    BY <1>1, <2>0, RecordParts DEF Heard, Joined, HubTypeOK
  <2>5. Delivered'
    BY <1>3, <2>0 DEF Delivered, Connected
  <2> QED
    BY <1>3, <2>1, <2>2, <2>3, <2>4, <2>5 DEF Hub
<1>4. ASSUME NEW s \in Answered, NEW c \in act,
             /\ pump' = "send"
             /\ cursor' = [cursor EXCEPT ![s] = @ + 1] /\ fromNow' = fromNow \ {s}
             /\ sent' = <<s, cursor[s] + 1>>
             /\ size' = Cardinality(act) /\ stirred' = "still"
             /\ cur' = {c} /\ todo' = act \ {c} /\ dead' = {}
             /\ UNCHANGED upto
      PROVE  Hub' /\ Joined' /\ Delivered' /\ dead' = {}
  <2>1. s \in Streams /\ cursor[s] < upto[s]
    BY <1>4 DEF Answered
  <2>2. cursor'[s] = cursor[s] + 1 /\ \A z \in Streams \ {s} : cursor'[z] = cursor[z]
    BY <1>4, <2>1 DEF HubTypeOK
  <2>3. Positions' /\ Quiet' /\ Blocked'
    BY <1>1, <1>4, <2>1, <2>2 DEF Positions, Quiet, Blocked
  <2>4. AtNow'
    BY <1>1, <1>4, <2>1, <2>2 DEF AtNow, HubTypeOK
  <2>5. TrimmedAway'
    BY <1>4 DEF TrimmedAway
  <2>6. Heard' /\ Joined'
    <3>1. \A z \in Streams : cursor[z] <= cursor'[z]
      BY <1>1, <2>2
    <3>2. Joined'
      BY <1>1, <3>1 DEF Joined, HubTypeOK
    <3>3. Heard'
      <4> SUFFICES ASSUME NEW d \in Sock, NEW r \in got'[d] PROVE r[2] <= cursor'[r[1]]
        BY DEF Heard
      <4>1. r \in Record /\ r[2] <= cursor[r[1]]
        BY DEF HubTypeOK
      <4> QED
        BY <1>1, <3>1, <4>1, RecordParts
    <3> QED
      BY <3>2, <3>3
  <2>7. Sending'
    <3>1. sent'[1] = s /\ sent'[2] = cursor[s] + 1
      BY <1>4
    <3>2. ASSUME NEW d \in Sock, NEW r \in got'[d], r[1] = s PROVE r[2] < cursor[s] + 1
      <4>1. r \in Record /\ r[2] <= cursor[s]
        BY <3>2 DEF HubTypeOK
      <4> QED
        BY <1>1, <2>1, <4>1, RecordParts
    <3>3. act \subseteq Sock /\ cur' \cup todo' \subseteq Sock /\ cur' \cap todo' = {}
      BY <1>4
    <3> QED
      BY <1>1, <1>4, <2>1, <2>2, <3>1, <3>2, <3>3 DEF Sending
  <2>8. Delivered'
    <3>1. ASSUME NEW d \in Sock, NEW z \in Streams, NEW i \in Nat,
                 Connected(d)', since'[d][z] < i, i <= cursor'[z]
          PROVE  <<z, i>> \in got'[d] \cup lost' \/ InHand(d, <<z, i>>)'
      <4>1. Connected(d) /\ d \in act
        BY <3>1 DEF Connected
      <4>2. CASE i <= cursor[z]
        BY <3>1, <4>1, <4>2
      <4>3. CASE ~(i <= cursor[z])
        <5>1. z = s /\ i = cursor[s] + 1
          BY <1>1, <2>1, <2>2, <3>1, <4>3
        <5> QED
          BY <1>4, <4>1, <5>1 DEF InHand
      <4> QED
        BY <4>2, <4>3
    <3> QED
      BY <3>1 DEF Delivered
  <2> QED
    BY <1>4, <2>3, <2>4, <2>5, <2>6, <2>7, <2>8 DEF Hub
<1> QED
  BY <1>2, <1>3, <1>4 DEF NextRecord

LEMMA SendEndsInv ==
  ASSUME HubInv, HubTypeOK', NEW c \in Sock, SendEnds(c),
         UNCHANGED <<redis, at, gone, past, since>>
  PROVE  Hub' /\ Pages'
<1> USE DEF Hub, Pages, HubInv
<1> DEFINE failed == dead \cup ({c} \cap gone)
<1>0. /\ UNCHANGED <<added, trimmed, at, gone, past, since>>
      /\ pump = "send" /\ cur = {c} /\ sent \in Record
  BY DEF SendEnds, redis, HubTypeOK
<1>1. got' = IF c \in gone THEN got ELSE [got EXCEPT ![c] = @ \cup {sent}]
  BY DEF SendEnds
<1>2. /\ \A d \in Sock \ {c} : got'[d] = got[d]
      /\ got[c] \subseteq got'[c] /\ got'[c] \subseteq got[c] \cup {sent}
      /\ c \notin gone => sent \in got'[c]
  BY <1>1 DEF HubTypeOK
<1>3. /\ sent[2] <= cursor[sent[1]] /\ cur \cap todo = {}
      /\ stirred # "still" => sent \in lost
      /\ stirred = "still" => size = Cardinality(active)
      /\ stirred = "still" =>
           \A d \in cur \cup todo : \A r \in got[d] : r[1] = sent[1] => r[2] < sent[2]
  BY <1>0 DEF Sending
<1>4. ~twice'
  <2>1. stirred = "still" => \A r \in got[c] : ~(r[1] = sent[1] /\ r[2] >= sent[2])
    <3> SUFFICES ASSUME stirred = "still", NEW r \in got[c], r[1] = sent[1]
                 PROVE  ~(r[2] >= sent[2])
      OBVIOUS
    <3>1. r \in Record /\ r[2] < sent[2]
      BY <1>0, <1>3 DEF HubTypeOK
    <3> QED
      BY <1>0, <3>1, RecordParts
  <2>2. twice' = (twice \/ (stirred = "still" /\ c \notin gone
                            /\ \E r \in got[c] : r[1] = sent[1] /\ r[2] >= sent[2]))
    BY DEF SendEnds
  <2> QED
    BY <2>1, <2>2, Zenon
<1>5. \A d \in Sock : \A r \in got'[d] : r[2] <= cursor[r[1]]
  BY <1>2, <1>3 DEF Heard
<1>6. \A d \in Sock, s \in Streams, i \in Nat :
        Connected(d) /\ since[d][s] < i /\ i <= cursor[s] =>
          \/ <<s, i>> \in got'[d] \cup lost
          \/ sent = <<s, i>> /\ d \in todo /\ stirred = "still"
  BY <1>0, <1>2, <1>3 DEF Delivered, InHand, Connected
<1>7. failed \subseteq gone /\ \A d \in Sock : Connected(d) => d \in active \ failed
  BY DEF Members, Connected
<1>8. CASE Cardinality(active) # size /\ Raises /\ UNCHANGED active
  <2>1. \A d \in Sock, s \in Streams, i \in Nat :
          Connected(d) /\ since[d][s] < i /\ i <= cursor[s] => <<s, i>> \in got'[d] \cup lost
    BY <1>3, <1>6, <1>8
  <2>2. Hub' /\ Joined' /\ Delivered' /\ dead' = {}
    BY <1>0, <1>5, <1>8, <2>1, RaisesInv
  <2>3. Members' /\ PastRead'
    BY <1>0, <1>8, <2>2 DEF Members, PastRead, Connected
  <2> QED
    BY <1>4, <2>2, <2>3
<1>9. ASSUME NEW rest \in Rests, UNCHANGED lost,
             rest = {}, active' = active \ failed, NextRecord(active')
      PROVE  Hub' /\ Pages'
  <2>1. stirred = "still" => todo = {}
    BY <1>9 DEF Rests
  <2>2. \A d \in Sock, s \in Streams, i \in Nat :
          Connected(d) /\ since[d][s] < i /\ i <= cursor[s] => <<s, i>> \in got'[d] \cup lost
    BY <1>6, <2>1
  <2>3. active' \in SUBSET Sock /\ \A d \in Sock : Connected(d) => d \in active'
    BY <1>7, <1>9 DEF HubTypeOK
  <2>4. Hub' /\ Joined' /\ Delivered' /\ dead' = {}
    BY <1>0, <1>5, <1>9, <2>2, <2>3, NextRecordInv
  <2>5. Members' /\ PastRead'
    BY <1>0, <2>3, <2>4 DEF Members, PastRead, Connected
  <2> QED
    BY <1>4, <2>4, <2>5
<1>10. ASSUME NEW rest \in Rests, UNCHANGED lost, rest # {}, NextSocket(rest, failed),
              UNCHANGED active
       PROVE  Hub' /\ Pages'
  <2>1. PICK d \in rest : /\ cur' = {d} /\ todo' = rest \ {d} /\ dead' = failed
                          /\ stirred' = IF stirred = "changed" THEN "resumed" ELSE stirred
                          /\ UNCHANGED <<cursor, fromNow, upto, pump, sent, size>>
    BY <1>10 DEF NextSocket
  <2>2. stirred = "still" => rest = todo /\ c \notin rest
    BY <1>0, <1>3, <1>10 DEF Rests
  <2>3. (stirred' = "still" <=> stirred = "still")
    BY <2>1
  <2>4. Positions' /\ Quiet' /\ Blocked' /\ TrimmedAway' /\ AtNow' /\ Joined'
    BY <1>0, <1>10, <2>1 DEF Positions, Quiet, Blocked, TrimmedAway, AtNow, Joined
  <2>5. Heard'
    BY <1>5, <2>1 DEF Heard
  <2>6. Sending'
    <3>1. rest \subseteq Sock /\ cur' \cup todo' = rest /\ cur' \cap todo' = {}
      BY <2>1 DEF Rests, HubTypeOK
    <3>2. stirred = "still" => \A e \in rest : got'[e] = got[e]
      BY <1>2, <2>2, <3>1
    <3> QED
      BY <1>3, <1>10, <2>1, <2>2, <2>3, <3>1, <3>2 DEF Sending
  <2>7. Delivered'
    <3>1. stirred = "still" => cur' \cup todo' = todo
      BY <2>1, <2>2
    <3> QED
      BY <1>0, <1>6, <1>10, <2>1, <3>1 DEF Delivered, Connected, InHand
  <2>8. Members' /\ PastRead'
    BY <1>0, <1>7, <1>10, <2>1 DEF Members, PastRead, Connected
  <2> QED
    BY <1>4, <2>4, <2>5, <2>6, <2>7, <2>8
<1>11. \/ Cardinality(active) # size /\ Raises /\ UNCHANGED active
       \/ /\ \E rest \in Rests :
               IF rest = {} THEN active' = active \ failed /\ NextRecord(active')
                            ELSE NextSocket(rest, failed) /\ UNCHANGED active
          /\ UNCHANGED lost
  BY DEF SendEnds
<1> QED
  BY <1>8, <1>9, <1>10, <1>11

LEMMA MembershipInv ==
  ASSUME HubInv, HubTypeOK', NEW c \in Sock, Connect(c) \/ Leave(c), UNCHANGED <<redis, heard>>
  PROVE  Hub' /\ Pages'
<1> USE DEF Hub, Pages, HubInv
<1>1. /\ UNCHANGED <<added, trimmed, cursor, fromNow, upto, pump, sent, size, cur, todo,
                     dead, gone, past, got, twice>>
      /\ \A d \in Sock \ {c} : at'[d] = at[d] /\ since'[d] = since[d]
      /\ \A d \in Sock \ {c} : d \in active' <=> d \in active
      /\ ~(c \in active /\ Leave(c)) => active \subseteq active'
      /\ at'[c] = "ping" \/ at'[c] = "done"
      /\ at'[c] = "ping" => c \in active' /\ since'[c] = cursor
      /\ at'[c] = "done" => since' = since
  BY DEF Connect, Leave, Pumping, redis, heard, HubTypeOK
<1>2. /\ lost \subseteq lost'
      /\ pump = "send" =>
           \/ stirred' = "changed" /\ sent \in lost'
           \/ UNCHANGED <<stirred, lost, active>>
  <2>1. \/ pump = "send" /\ stirred' = "changed" /\ lost' = lost \cup {sent}
        \/ pump # "send" /\ UNCHANGED <<stirred, lost>>
        \/ UNCHANGED <<stirred, lost, active>>
    <3>1. CASE Connect(c)
      BY <3>1 DEF Connect, Stir
    <3>2. CASE Leave(c) /\ c \in active
      BY <3>2 DEF Leave, Stir
    <3>3. CASE Leave(c) /\ c \notin active
      <4>1. active \ {c} = active
        BY <3>3
      <4> QED
        BY <3>3, <4>1 DEF Leave
    <3> QED
      BY <3>1, <3>2, <3>3
  <2> QED
    BY <2>1
<1>3. Positions' /\ AtNow' /\ Quiet' /\ Blocked' /\ TrimmedAway' /\ Heard'
  BY <1>1, <1>2 DEF Positions, AtNow, Quiet, Blocked, TrimmedAway, Heard
<1>4. Sending'
  BY <1>1, <1>2 DEF Sending
<1>5. Members'
  BY <1>1 DEF Members, Connected
<1>6. Joined'
  BY <1>1, HubNats DEF Joined
<1>7. PastRead'
  BY <1>1 DEF PastRead
<1>8. Delivered'
  <2> SUFFICES ASSUME NEW d \in Sock, NEW s \in Streams, NEW i \in Nat,
                      Connected(d)', since'[d][s] < i, i <= cursor'[s]
               PROVE  <<s, i>> \in got'[d] \cup lost' \/ InHand(d, <<s, i>>)'
    BY DEF Delivered
  <2>1. CASE d = c
    BY <1>1, <2>1, HubNats DEF Connected
  <2>2. CASE d # c
    BY <1>1, <1>2, <2>2 DEF Delivered, Connected, InHand
  <2> QED
    BY <2>1, <2>2
<1> QED
  BY <1>1, <1>3, <1>4, <1>5, <1>6, <1>7, <1>8

LEMMA HandlerInv ==
  ASSUME HubInv, HubTypeOK', NEW c \in Sock, UNCHANGED <<redis, heard>>,
         Vanish(c) \/ SendStatus(c) \/ Fetch(c) \/ FetchFails(c) \/ SendPast(c)
  PROVE  Hub' /\ Pages'
<1> USE DEF Hub, Pages, HubInv
<1>1. /\ UNCHANGED <<added, trimmed, hub, active, since, got, twice, lost>>
      /\ gone \subseteq gone'
      /\ \A d \in Sock : Connected(d)' => Connected(d)
  BY DEF Vanish, SendStatus, Fetch, FetchFails, SendPast, redis, heard, Connected, HubTypeOK
<1>2. Hub' /\ Joined'
  BY <1>1 DEF hub, Positions, AtNow, Quiet, Blocked, TrimmedAway, Sending, Heard, Joined
<1>3. Members' /\ Delivered' /\ ~twice'
  BY <1>1 DEF hub, Members, Delivered, InHand
<1>4. PastRead'
  <2>1. CASE Vanish(c) \/ SendStatus(c) \/ FetchFails(c)
    BY <1>1, <2>1 DEF Vanish, SendStatus, FetchFails, PastRead, HubTypeOK
  <2>2. CASE SendPast(c)
    BY <1>1, <2>2 DEF SendPast, PastRead, HubTypeOK
  <2>3. CASE Fetch(c)
    <3>1. since[c]["trades"] <= cursor["trades"] /\ cursor["trades"] <= added["trades"]
      <4>1. "trades" \in Streams
        BY DEF Streams
      <4> QED
        BY <4>1, HubNats DEF Joined, Positions, HubTypeOK
    <3>2. past'[c] = [from |-> trimmed["trades"], to |-> Oldest(HistMax),
                      seen |-> added["trades"]]
      BY <2>3 DEF Fetch, HubTypeOK
    <3>3. Oldest(HistMax) = added["trades"] \/ Oldest(HistMax) = trimmed["trades"] + HistMax
      BY DEF Oldest
    <3>4. \A d \in Sock \ {c} : past'[d] = past[d] /\ at'[d] = at[d]
      BY <2>3 DEF Fetch, HubTypeOK
    <3>5. since[c]["trades"] <= added["trades"] /\ trimmed["trades"] <= trimmed["trades"]
      <4>1. "trades" \in Streams
        BY DEF Streams
      <4> QED
        BY <3>1, <4>1, HubNats DEF HubTypeOK
    <3> QED
      BY <1>1, <3>2, <3>3, <3>4, <3>5 DEF PastRead
  <2> QED
    BY <2>1, <2>2, <2>3
<1> QED
  BY <1>2, <1>3, <1>4

LEMMA KillInv ==
  ASSUME HubInv, HubTypeOK', HubKill, UNCHANGED <<redis, heard>>
  PROVE  Hub' /\ Pages'
<1> USE DEF Hub, Pages, HubInv
<1>1. \A s \in Streams : /\ cursor'[s] = added[s] /\ upto'[s] = added[s] /\ added'[s] = added[s]
                         /\ trimmed'[s] = trimmed[s] /\ trimmed[s] <= added[s]
                         /\ cursor[s] <= added[s]
                         /\ added[s] \in Nat /\ trimmed[s] \in Nat /\ cursor[s] \in Nat
  BY HubNats DEF HubKill, redis, Positions
<1>2. pump' = "read" /\ fromNow' = Streams /\ dead' = {} /\ UNCHANGED <<got, twice, since, gone>>
  BY DEF HubKill, heard
<1>3. \A c \in Sock : ~Connected(c)' /\ at'[c] \in {"new", "done"}
  BY DEF HubKill, Connected, HubTypeOK
<1>4. Positions' /\ AtNow' /\ Quiet' /\ Blocked' /\ TrimmedAway' /\ Sending'
  BY <1>1, <1>2 DEF Positions, AtNow, Quiet, Blocked, TrimmedAway, Sending
<1>5. Joined'
  BY <1>1, <1>2 DEF Joined, HubTypeOK
<1>6. Heard'
  <2> SUFFICES ASSUME NEW c \in Sock, NEW r \in got'[c] PROVE r[2] <= cursor'[r[1]]
    BY DEF Heard
  <2>1. r \in Record /\ r[2] <= cursor[r[1]]
    BY <1>2 DEF Heard, HubTypeOK
  <2> QED
    BY <1>1, <2>1, RecordParts
<1>7. Members' /\ PastRead' /\ Delivered' /\ ~twice'
  BY <1>2, <1>3 DEF Members, PastRead, Delivered
<1> QED
  BY <1>4, <1>5, <1>6, <1>7

LEMMA RestartInv ==
  ASSUME HubInv, HubTypeOK', HubRedisRestart, UNCHANGED <<added, socks, heard>>
  PROVE  Hub' /\ Pages'
<1> USE DEF Hub, Pages, HubInv
<1>1. /\ UNCHANGED <<added, cursor, fromNow, upto, sent, size, cur, todo, dead, stirred,
                     active, at, gone, past, since, got, twice>>
      /\ trimmed' = added /\ lost \subseteq lost'
      /\ pump' = (IF pump = "blocked" THEN "sleep" ELSE pump)
  BY DEF HubRedisRestart, socks, heard
<1>2. \A s \in Streams, i \in Nat : upto[s] < i /\ i <= added[s] => <<s, i>> \in lost'
  BY HubNats, SpanRecords DEF HubRedisRestart
<1>3. Positions' /\ AtNow' /\ Quiet' /\ Blocked' /\ TrimmedAway'
  BY <1>1, <1>2, HubNats DEF Positions, AtNow, Quiet, Blocked, TrimmedAway
<1>4. Sending' /\ Heard' /\ Members' /\ Joined' /\ Delivered' /\ ~twice'
  BY <1>1 DEF Sending, Heard, Members, Joined, Delivered, Connected, InHand
<1>5. PastRead'
  <2>1. "trades" \in Streams /\ trimmed["trades"] <= added["trades"]
    BY DEF Positions, Streams
  <2> QED
    BY <1>1, <2>1, HubNats DEF PastRead, HubTypeOK
<1> QED
  BY <1>3, <1>4, <1>5

LEMMA BeginOrWaitInv ==
  ASSUME HubInv, HubTypeOK', ReadTimesOut \/ Wakes \/ Begin,
         UNCHANGED <<redis, active, heard, lost, at, gone, past, since>>
  PROVE  Hub' /\ Pages'
<1> USE DEF Hub, Pages, HubInv
<1>0. UNCHANGED <<added, trimmed, active, got, twice, lost, at, gone, past, since>>
  BY DEF redis, heard
<1>1. CASE ReadTimesOut \/ Wakes
  <2>1. /\ pump \in {"blocked", "sleep"} /\ pump' = "read"
        /\ UNCHANGED <<cursor, fromNow, upto, sent, size, cur, todo, dead, stirred>>
    BY <1>1 DEF ReadTimesOut, Wakes
  <2>2. Hub'
    BY <1>0, <2>1 DEF Positions, AtNow, Quiet, Blocked, TrimmedAway, Sending, Heard
  <2>3. Pages'
    BY <1>0, <2>1 DEF Members, Joined, PastRead, Delivered, Connected, InHand
  <2> QED
    BY <2>2, <2>3
<1>2. CASE Begin
  <2>1. \A c \in Sock, s \in Streams, i \in Nat :
          Connected(c) /\ since[c][s] < i /\ i <= cursor[s] => <<s, i>> \in got'[c] \cup lost
    BY <1>0, <1>2 DEF Begin, Delivered, InHand
  <2>2. \A c \in Sock : \A r \in got'[c] : r[2] <= cursor[r[1]]
    BY <1>0 DEF Heard
  <2>3. active \in SUBSET Sock /\ \A c \in Sock : Connected(c) => c \in active
    BY DEF HubTypeOK, Members
  <2>4. Hub' /\ Joined' /\ Delivered' /\ dead' = {}
    BY <1>0, <1>2, <2>1, <2>2, <2>3, NextRecordInv DEF Begin
  <2> QED
    BY <1>0, <2>3, <2>4 DEF Members, PastRead, Connected
<1> QED
  BY <1>1, <1>2

LEMMA ReadFailsInv ==
  ASSUME HubInv, HubTypeOK', ReadFails, UNCHANGED <<redis, socks, heard>>
  PROVE  Hub' /\ Pages'
<1> USE DEF Hub, Pages, HubInv
<1>0. UNCHANGED <<added, trimmed, active, got, twice, at, gone, past, since>> /\ pump # "send"
  BY DEF ReadFails, redis, socks, heard
<1>1. \A c \in Sock, s \in Streams, i \in Nat :
        Connected(c) /\ since[c][s] < i /\ i <= cursor[s] => <<s, i>> \in got'[c] \cup lost
  BY <1>0 DEF Delivered, InHand
<1>2. \A c \in Sock : \A r \in got'[c] : r[2] <= cursor[r[1]]
  BY <1>0 DEF Heard
<1>3. Hub' /\ Joined' /\ Delivered' /\ dead' = {}
  BY <1>0, <1>1, <1>2, RaisesInv DEF ReadFails
<1> QED
  BY <1>0, <1>3 DEF Members, PastRead, Connected

LEMMA HubStepInv == ASSUME HubInv, [Next]_vars PROVE HubInv'
<1>0. HubTypeOK'
  BY HubType DEF HubInv
<1>1. CASE PumpStep
  <2>1. CASE Read /\ UNCHANGED <<active, heard, lost>>
    BY <1>0, <1>1, <2>1, ReadInv DEF PumpStep, HubInv
  <2>2. CASE (ReadTimesOut \/ Wakes \/ Begin) /\ UNCHANGED <<active, heard, lost>>
    BY <1>0, <1>1, <2>2, BeginOrWaitInv DEF PumpStep, HubInv
  <2>3. CASE \E c \in Sock : SendEnds(c)
    BY <1>0, <1>1, <2>3, SendEndsInv DEF PumpStep, HubInv
  <2> QED
    BY <1>1, <2>1, <2>2, <2>3 DEF PumpStep
<1>2. CASE SockStep
  <2>1. UNCHANGED <<redis, heard>>
    BY <1>2 DEF SockStep
  <2>2. \E c \in Sock : \/ Connect(c) \/ Leave(c)
                        \/ Vanish(c) \/ SendStatus(c) \/ Fetch(c) \/ FetchFails(c) \/ SendPast(c)
    BY <1>2 DEF SockStep
  <2> QED
    BY <1>0, <2>1, <2>2, MembershipInv, HandlerInv DEF HubInv
<1>3. CASE SwitchStep
  <2>1. CASE UNCHANGED <<redis, hub, socks, heard, lost>>
    <3>1. UNCHANGED <<added, trimmed, hub, active, at, gone, past, since, got, twice, lost>>
      BY <2>1 DEF redis, socks, heard
    <3> QED
      BY <1>0, <3>1 DEF HubInv, Hub, Pages, hub, Positions, AtNow, Quiet, Blocked, TrimmedAway,
                        Sending, Heard, Members, Joined, PastRead, Delivered, Connected, InHand
  <2>2. CASE Publish("control")
    BY <1>0, <2>2, PublishInv DEF HubInv, Streams
  <2> QED
    BY <1>3, <2>1, <2>2 DEF SwitchStep
<1>4. CASE Trade
  BY <1>0, <1>4, PublishInv DEF HubInv, Trade, Streams
<1>5. CASE Fault
  BY <1>0, <1>5, ReadFailsInv, KillInv, RestartInv DEF Fault, HubInv
<1>6. CASE UNCHANGED vars
  BY <1>0, <1>6 DEF vars, socks, HubInv, Hub, Pages, hub, Positions, AtNow, Quiet, Blocked,
                    TrimmedAway, Sending, Heard, Members, Joined, PastRead, Delivered,
                    Connected, InHand
<1> QED
  BY <1>1, <1>2, <1>3, <1>4, <1>5, <1>6 DEF Next

LEMMA HubInvariant == Spec => []HubInv
<1>1. ASSUME Init PROVE HubInv
  <2>1. /\ \A s \in Streams : added[s] = 0 /\ trimmed[s] = 0 /\ cursor[s] = 0 /\ upto[s] = 0
        /\ fromNow = Streams /\ pump = "read" /\ dead = {} /\ twice = FALSE
        /\ \A c \in Sock : at[c] = "new" /\ got[c] = {} /\ \A s \in Streams : since[c][s] = 0
    BY <1>1 DEF Init
  <2>2. Positions /\ AtNow /\ Quiet /\ Blocked /\ TrimmedAway /\ Sending /\ Heard
    BY <2>1 DEF Positions, AtNow, Quiet, Blocked, TrimmedAway, Sending, Heard
  <2>3. Members /\ Joined /\ PastRead /\ Delivered /\ ~twice
    BY <2>1 DEF Members, Joined, PastRead, Delivered, Connected
  <2> QED
    BY <1>1, <2>2, <2>3, HubInitType DEF HubInv, Hub, Pages
<1>2. HubInv /\ [Next]_vars => HubInv'
  BY HubStepInv
<1> QED
  BY <1>1, <1>2, PTL DEF Spec

(* A connected page gets, once and in order, every record the pump passes   *)
(* after it joined, but for those in lost, for any number of connections    *)
(* and records (HubDelivers: redis_pump, broadcast).                        *)
THEOREM HubAlwaysDelivers == Spec => []HubDelivers
<1>1. ASSUME HubInv PROVE HubDelivers
  <2>1. ASSUME NEW c \in Sock, NEW s \in Streams, Connected(c),
               NEW i \in since[c][s] + 1..cursor[s]
        PROVE  <<s, i>> \in got[c] \cup lost \/ InHand(c, <<s, i>>)
    <3>1. since[c][s] \in Nat /\ cursor[s] \in Nat
      BY <1>1 DEF HubInv, HubTypeOK
    <3>2. i \in Nat /\ since[c][s] < i /\ i <= cursor[s]
      BY <3>1
    <3> QED
      BY <1>1, <2>1, <3>2 DEF HubInv, Pages, Delivered
  <2> QED
    BY <1>1, <2>1 DEF HubDelivers, HubInv, Pages
<1> QED
  BY <1>1, HubInvariant, PTL

(* Between the past a page is sent on connecting and what is broadcast to   *)
(* it no trade is missing, but for those in lost and those beyond the       *)
(* oldest HistMax (HistoryJoinsLive: ws_endpoint).                          *)
THEOREM HistoryMeetsLive == Spec => []HistoryJoinsLive
<1>1. ASSUME HubInv PROVE HistoryJoinsLive
  <2> SUFFICES ASSUME NEW c \in Sock, at[c] = "listen", c \notin gone,
                      NEW i \in trimmed["trades"] + 1..cursor["trades"]
               PROVE  \/ i \in past[c].from + 1..past[c].to
                      \/ past[c].to = past[c].from + HistMax /\ i <= past[c].seen
                      \/ <<"trades", i>> \in got[c] \cup lost
                      \/ InHand(c, <<"trades", i>>)
    BY DEF HistoryJoinsLive
  <2>1. /\ "trades" \in Streams /\ Connected(c)
        /\ trimmed["trades"] \in Nat /\ cursor["trades"] \in Nat
        /\ since[c]["trades"] \in Nat
        /\ past[c].from \in Nat /\ past[c].to \in Nat /\ past[c].seen \in Nat
    BY <1>1 DEF HubInv, HubTypeOK, Streams, Connected
  <2>2. i \in Nat /\ trimmed["trades"] < i /\ i <= cursor["trades"]
    BY <2>1
  <2>3. /\ past[c].from <= trimmed["trades"] /\ since[c]["trades"] <= past[c].seen
        /\ past[c].to = past[c].seen \/ past[c].to = past[c].from + HistMax
    BY <1>1 DEF HubInv, Pages, PastRead
  <2>4. CASE i <= past[c].seen
    BY <2>1, <2>2, <2>3, <2>4
  <2>5. CASE ~(i <= past[c].seen)
    <3>1. since[c]["trades"] < i
      BY <2>1, <2>2, <2>3, <2>5
    <3> QED
      BY <1>1, <2>1, <2>2, <3>1 DEF HubInv, Pages, Delivered
  <2> QED
    BY <2>4, <2>5
<1> QED
  BY <1>1, HubInvariant, PTL

=============================================================================
