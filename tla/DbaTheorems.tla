---------------------------- MODULE DbaTheorems ----------------------------
(***************************************************************************)
(* Theorems about planned schema changes, for any number of operations,    *)
(* actors, requests, calls and crashes.                                    *)
(***************************************************************************)
EXTENDS DbaProperties, TLAPS

-----------------------------------------------------------------------------
(* The inductive invariant: what decides (the rows and the calls of        *)
(* resolve) and what executes (attempts and calls of execute_approved).    *)

(* A decision is on an existing operation, by another actor who holds one  *)
(* of the roles its plan requires.                                         *)
Signed(d) ==
  /\ op[d.op].status # "none"
  /\ d.role \in Holds[d.actor] \cap Required(op[d.op].plan)
  /\ d.actor # op[d.op].by

DecisionsOK == \A d \in decisions : Signed(d)

ResolversOK == \A c \in Caller :
  /\ pc[c] = "append" => Signed(asks[c])
  /\ pc[c] = "grant" => Enough(asks[c].op)

WaitingOK == \A o \in Operation :
  op[o].status = "awaiting_approval" => ~Denied(op[o].plan, op[o].by)

DecideInv == DecisionsOK /\ ResolversOK /\ WaitingOK /\ OnlyGranted

Working == {"record", "call", "failed", "uncertain", "close_failed",
            "close_uncertain", "executed"}

(* An executor works on a row that says so, under its own attempt. *)
ExecutorOK(x) ==
  /\ xpc[x] \in Working => op[xop[x]].status = "executing"
  /\ xpc[x] = "verify" => op[xop[x]].status = "executed"
  /\ xpc[x] = "complete" =>
       op[xop[x]].status \in {"succeeded", "executed_verification_failed"}
  /\ xpc[x] \in {"call", "failed", "uncertain", "executed", "verify", "complete"} =>
       attempt[Key(x)] = [op |-> xop[x], st |-> "executing"]
  /\ xpc[x] = "close_failed" => attempt[Key(x)] = [op |-> xop[x], st |-> "failed"]
  /\ xpc[x] = "close_uncertain" => attempt[Key(x)] = [op |-> xop[x], st |-> "uncertain"]
  /\ xpc[x] \in {"call", "failed", "close_failed"} => applied[Key(x)] = 0
  /\ xpc[x] \in {"executed", "verify", "complete"} => applied[Key(x)] = 1

ExecutorsOK == \A x \in Executor : ExecutorOK(x)

(* Two executors past their first transition work on different operations. *)
OneExecutor == \A x, y \in Executor :
  x # y /\ xpc[x] \notin {"idle", "begin"} /\ xpc[y] \notin {"idle", "begin"} =>
    xop[x] # xop[y]

(* An attempt belongs to an operation that has begun, and a plan without   *)
(* an attempt was not applied.                                             *)
AttemptOK(p) ==
  /\ applied[p] <= 1
  /\ attempt[p].st = "none" => applied[p] = 0
  /\ attempt[p].st # "none" =>
       /\ op[attempt[p].op].plan = p
       /\ op[attempt[p].op].status \in {"executing"} \cup Over

AttemptsOK == \A p \in Plans : AttemptOK(p)

ExecuteInv == ExecutorsOK /\ OneExecutor /\ AttemptsOK /\ OutcomeIsTold

IInv == TypeOK /\ DecideInv /\ ExecuteInv

-----------------------------------------------------------------------------
(* Operators *)

LEMMA RequiredAreRoles == \A p : Required(p) \subseteq Role
  BY DEF Required, Role

LEMMA NothingChosen ==
  /\ NoPlan \in Plans /\ NoActor \in Actor /\ NoOperation \in Operation
  /\ NoAsk \in Decision
<1>1. NoPlan \in Plans /\ NoActor \in Actor /\ NoOperation \in Operation
  BY DbaAssumption DEF NoPlan, NoActor, NoOperation
<1>2. (CHOOSE q \in RequestId : TRUE) \in RequestId  BY DbaAssumption
<1> QED  BY <1>1, <1>2 DEF NoAsk, Decision, Verdict, Role

(* A transition changes one status and nothing else. *)
LEMMA TransitionShape ==
  ASSUME TypeOK, NEW o \in Operation, NEW from, NEW to \in OpStatus,
         Transition(o, from, to)
  PROVE  /\ op' \in [Operation -> [status : OpStatus, plan : Plans, by : Actor]]
         /\ op[o].status \in from
         /\ op'[o].status = to
         /\ \A u \in Operation : /\ op'[u].plan = op[u].plan /\ op'[u].by = op[u].by
                                 /\ u # o => op'[u] = op[u]
<1>1. op \in [Operation -> [status : OpStatus, plan : Plans, by : Actor]]
  BY DEF TypeOK
<1>2. op[o] \in [status : OpStatus, plan : Plans, by : Actor]  BY <1>1
<1>3. op' = [op EXCEPT ![o] = [op[o] EXCEPT !.status = to]]
  BY <1>1, <1>2 DEF Transition
<1>4. [op[o] EXCEPT !.status = to] = [status |-> to, plan |-> op[o].plan, by |-> op[o].by]
  BY <1>2
<1> QED  BY <1>1, <1>2, <1>3, <1>4 DEF Transition

-----------------------------------------------------------------------------
(* Frames *)

(* A step of an executor, or one that leaves the rows alone, keeps what     *)
(* decides, as long as it lets no new operation past its approval.         *)
LEMMA DecideFrame ==
  ASSUME TypeOK, DecideInv, UNCHANGED <<decisions, pc, asks>>,
         \A o \in Operation :
           /\ op'[o].plan = op[o].plan /\ op'[o].by = op[o].by
           /\ op[o].status # "none" => op'[o].status # "none"
           /\ op'[o].status = "awaiting_approval" => op[o].status = "awaiting_approval"
           /\ Past(o)' => Past(o)
  PROVE  DecideInv'
<1>1. DecisionsOK'
  BY DEF DecideInv, DecisionsOK, Signed, TypeOK, Decision
<1>2. ResolversOK'
  <2>1. \A c \in Caller : asks[c].op \in Operation  BY DEF TypeOK, Decision
  <2> QED  BY <2>1 DEF DecideInv, ResolversOK, Signed, Enough, Approvals
<1>3. WaitingOK'
  BY DEF DecideInv, WaitingOK, Denied
<1>4. OnlyGranted'
  <2> SUFFICES ASSUME NEW o \in Operation, Past(o)'
               PROVE  Granted(o)' /\ ~Denied(op[o].plan, op[o].by)'
    BY DEF OnlyGranted
  <2>1. Granted(o) /\ ~Denied(op[o].plan, op[o].by)  BY DEF DecideInv, OnlyGranted
  <2> QED  BY <2>1 DEF Granted, Denied
<1> QED  BY <1>1, <1>2, <1>3, <1>4 DEF DecideInv

(* A step of resolve, or of create_operation, keeps what executes: it      *)
(* leaves alone the operations that were granted.                          *)
LEMMA ExecuteFrame ==
  ASSUME TypeOK, ExecuteInv, UNCHANGED <<attempt, xpc, xop, applied>>,
         \A o \in Operation :
           \/ op'[o] = op[o]
           \/ /\ op[o].status \in {"none", "awaiting_approval"}
              /\ op'[o].status \in {"awaiting_approval", "approved"} \cup Refused
  PROVE  ExecuteInv'
<1>1. \A x \in Executor : xop[x] \in Operation  BY DEF TypeOK
<1>2. ExecutorsOK'
  <2> SUFFICES ASSUME NEW x \in Executor, xpc[x] \notin {"idle", "begin"}
               PROVE  op'[xop[x]] = op[xop[x]]
    BY DEF ExecuteInv, ExecutorsOK, ExecutorOK, Key, Working
  <2>1. xpc[x] \in Working \cup {"verify", "complete"}  BY DEF TypeOK, Working
  <2>2. op[xop[x]].status \in {"executing"} \cup Over
    BY <2>1 DEF ExecuteInv, ExecutorsOK, ExecutorOK, Over
  <2> QED  BY <1>1, <2>2 DEF Over
<1>3. OneExecutor'  BY DEF ExecuteInv, OneExecutor
<1>4. AttemptsOK'
  BY DEF ExecuteInv, AttemptsOK, AttemptOK, TypeOK, Over
<1>5. OutcomeIsTold'
  BY DEF ExecuteInv, OutcomeIsTold, Told, Refused
<1> QED  BY <1>2, <1>3, <1>4, <1>5 DEF ExecuteInv

-----------------------------------------------------------------------------
(* create_operation and resolve *)

LEMMA InitOK ==
  ASSUME Init
  PROVE  IInv
<1>1. TypeOK
  BY NothingChosen DEF Init, TypeOK, OpStatus, NoAttempt, Decision
<1>2. DecideInv
  BY DEF Init, DecideInv, DecisionsOK, ResolversOK, WaitingOK, OnlyGranted, Past, Over
<1>3. ExecuteInv
  BY DEF Init, ExecuteInv, ExecutorsOK, ExecutorOK, OneExecutor, AttemptsOK,
         AttemptOK, OutcomeIsTold, Told, NoAttempt, Working
<1> QED  BY <1>1, <1>2, <1>3 DEF IInv

(* Nothing of this part changes. *)
LEMMA AsideOK ==
  ASSUME IInv, UNCHANGED <<tables, resolving, executing, applied>>,
         lapsed' \subseteq Operation, acked' \subseteq Operation,
         calls' \in Nat, crashes' \in Nat
  PROVE  IInv'
<1>1. TypeOK'  BY DEF IInv, TypeOK, tables, resolving, executing
<1>2. DecideInv'
  BY DecideFrame DEF IInv, tables, resolving, Past
<1>3. ExecuteInv'  BY ExecuteFrame DEF IInv, tables, executing
<1> QED  BY <1>1, <1>2, <1>3 DEF IInv

LEMMA CreateOK ==
  ASSUME IInv, NEW o \in Operation, Create(o)
  PROVE  IInv'
<1>1. PICK p \in Plans, a \in Actor :
        op' = [op EXCEPT ![o] =
                [status |-> IF Denied(p, a) THEN "policy_blocked" ELSE "awaiting_approval",
                 plan |-> p, by |-> a]]
  BY DEF Create
<1>2. TypeOK /\ DecideInv /\ ExecuteInv  BY DEF IInv
<1>3. /\ op'[o].plan = p /\ op'[o].by = a /\ op[o].status = "none"
      /\ op'[o].status = IF Denied(p, a) THEN "policy_blocked" ELSE "awaiting_approval"
      /\ \A u \in Operation \ {o} : op'[u] = op[u]
  BY <1>1, <1>2 DEF TypeOK, Create
<1>4. TypeOK'
  BY <1>1, <1>2 DEF TypeOK, Create, Called, OpStatus, Refused, resolving, executing
<1>5. DecideInv'
  <2>1. \A d \in decisions : d.op \in Operation \ {o}
    BY <1>2, <1>3 DEF DecideInv, DecisionsOK, Signed, TypeOK, Decision
  <2>2. DecisionsOK'
    BY <1>2, <1>3, <2>1 DEF DecideInv, DecisionsOK, Signed, Create
  <2>3. \A c \in Caller : asks[c].op \in Operation  BY <1>2 DEF TypeOK, Decision
  <2>4. Approvals(o) = {}  BY <2>1 DEF Approvals
  <2>5. \A u \in Operation \ {o} : Enough(u) => Enough(u)'
    BY <1>3 DEF Enough, Approvals, Create
  <2>6. ~Enough(o)  BY <2>4 DEF Enough, Required
  <2>7. ResolversOK'
    <3>1. \A c \in Caller : asks'[c] = asks[c] /\ pc'[c] = pc[c]
      BY DEF Create, resolving
    <3>2. \A c \in Caller : pc[c] = "append" => asks[c].op # o
      BY <1>2, <1>3 DEF DecideInv, ResolversOK, Signed
    <3>3. \A c \in Caller : pc[c] = "grant" => asks[c].op # o
      BY <1>2, <2>6 DEF DecideInv, ResolversOK
    <3> QED  BY <1>2, <1>3, <2>3, <2>5, <3>1, <3>2, <3>3
             DEF DecideInv, ResolversOK, Signed
  <2>8. WaitingOK'
    BY <1>2, <1>3 DEF DecideInv, WaitingOK, Denied
  <2>9. OnlyGranted'
    BY <1>2, <1>3 DEF DecideInv, OnlyGranted, Past, Granted, Denied, Over, Create
  <2> QED  BY <2>2, <2>7, <2>8, <2>9 DEF DecideInv
<1>6. ExecuteInv'
  BY <1>2, <1>3, ExecuteFrame DEF Create, executing, Refused
<1> QED  BY <1>4, <1>5, <1>6 DEF IInv

(* A call of resolve moves on; rows and decisions stay. *)
LEMMA MoveOK ==
  ASSUME IInv, NEW c \in Caller, UNCHANGED <<tables, executing, applied>>,
         NEW p \in {"idle", "expire", "append", "refuse", "count", "grant"},
         NEW d \in Decision, p = "append" => Signed(d), p = "grant" => Enough(d.op),
         pc' = [pc EXCEPT ![c] = p], asks' = [asks EXCEPT ![c] = d],
         lapsed' \subseteq Operation, acked' \subseteq Operation,
         calls' \in Nat, crashes' \in Nat
  PROVE  IInv'
<1>1. TypeOK /\ DecideInv /\ ExecuteInv  BY DEF IInv
<1>2. TypeOK'  BY <1>1 DEF TypeOK, tables, executing
<1>3. DecideInv'
  <2>1. ResolversOK'
    <3> SUFFICES ASSUME NEW k \in Caller
                 PROVE  /\ pc'[k] = "append" => Signed(asks'[k])
                        /\ pc'[k] = "grant" => Enough(asks'[k].op)
      BY DEF ResolversOK, tables, Signed, Enough, Approvals
    <3>1. CASE k = c  BY <1>1, <3>1 DEF TypeOK
    <3>2. CASE k # c  BY <1>1, <3>2 DEF TypeOK, DecideInv, ResolversOK
    <3> QED  BY <3>1, <3>2
  <2> QED  BY <1>1, <2>1 DEF DecideInv, tables, DecisionsOK, Signed, WaitingOK,
             OnlyGranted, Past, Granted
<1>4. ExecuteInv'  BY <1>1, ExecuteFrame DEF tables, executing
<1> QED  BY <1>2, <1>3, <1>4 DEF IInv

LEMMA ResolveOK ==
  ASSUME IInv, NEW c \in Caller, Resolve(c)
  PROVE  IInv'
<1>0. TypeOK  BY DEF IInv
<1>1. PICK o \in Operation, q \in RequestId, v \in Verdict, a \in Actor :
        /\ op[o].status # "none"
        /\ \/ /\ \E d \in Prior(o, q) : d.verdict = v /\ Acknowledge(d)
              /\ UNCHANGED resolving
           \/ /\ pc' = [pc EXCEPT ![c] = "expire"]
              /\ asks' = [asks EXCEPT ![c].op = o]
              /\ UNCHANGED acked
           \/ /\ a # op[o].by
              /\ \E r \in Holds[a] \cap Required(op[o].plan) :
                   asks' = [asks EXCEPT ![c] = [op |-> o, req |-> q, verdict |-> v,
                                                actor |-> a, role |-> r]]
              /\ pc' = [pc EXCEPT ![c] = "append"]
              /\ UNCHANGED acked
  BY DEF Resolve
<1>a. /\ UNCHANGED <<tables, executing, applied>> /\ lapsed' \subseteq Operation
      /\ calls' \in Nat /\ crashes' \in Nat
  BY <1>0 DEF Resolve, Called, TypeOK
<1>b. acked \subseteq Operation  BY <1>0 DEF TypeOK
<1>2. CASE (\E d \in Prior(o, q) : Acknowledge(d)) /\ UNCHANGED resolving
  <2>1. acked' \subseteq Operation
    BY <1>0, <1>2 DEF TypeOK, Prior, Decision, Acknowledge
  <2> QED  BY <1>a, <1>2, <2>1, AsideOK
<1>3. CASE pc' = [pc EXCEPT ![c] = "expire"] /\ asks' = [asks EXCEPT ![c].op = o]
           /\ UNCHANGED acked
  <2> DEFINE d == [asks[c] EXCEPT !.op = o]
  <2>1. d \in Decision  BY <1>0 DEF TypeOK, Decision
  <2>2. asks' = [asks EXCEPT ![c] = d]  BY <1>3
  <2> HIDE DEF d
  <2> QED  BY <1>a, <1>b, <1>3, <2>1, <2>2, MoveOK
<1>4. ASSUME a # op[o].by, NEW r \in Holds[a] \cap Required(op[o].plan),
             asks' = [asks EXCEPT ![c] = [op |-> o, req |-> q, verdict |-> v,
                                          actor |-> a, role |-> r]],
             pc' = [pc EXCEPT ![c] = "append"], UNCHANGED acked
      PROVE  IInv'
  <2> DEFINE d == [op |-> o, req |-> q, verdict |-> v, actor |-> a, role |-> r]
  <2>1. d \in Decision  BY RequiredAreRoles DEF Decision
  <2>2. Signed(d)  BY <1>1, <1>4 DEF Signed
  <2>3. asks' = [asks EXCEPT ![c] = d]  BY <1>4
  <2> HIDE DEF d
  <2> QED  BY <1>a, <1>b, <1>4, <2>1, <2>2, <2>3, MoveOK
<1> QED  BY <1>1, <1>2, <1>3, <1>4

(* A call returns, raises or dies. *)
LEMMA LeaveOK ==
  ASSUME IInv, NEW c \in Caller, Leave(c), UNCHANGED <<tables, executing, applied>>,
         lapsed' \subseteq Operation, acked' \subseteq Operation,
         calls' \in Nat, crashes' \in Nat
  PROVE  IInv'
  BY NothingChosen, MoveOK DEF Leave

(* With all required roles on record, the operation is granted. *)
LEMMA EnoughIsGranted ==
  ASSUME DecisionsOK, NEW o \in Operation, Enough(o)
  PROVE  Granted(o)
  BY DEF DecisionsOK, Signed, Enough, Approvals, Granted

(* A call ends by moving a waiting operation. *)
LEMMA LeaveTransitionOK ==
  ASSUME IInv, NEW c \in Caller, NEW o \in Operation,
         NEW s \in Refused \cup {"approved"}, s = "approved" => Enough(o),
         Transition(o, {"awaiting_approval"}, s), Leave(c),
         UNCHANGED <<decisions, attempt, executing, applied, lapsed, calls, crashes>>,
         acked' \subseteq Operation
  PROVE  IInv'
<1>1. TypeOK /\ DecideInv /\ ExecuteInv /\ s \in OpStatus
  BY DEF IInv, OpStatus
<1>2. /\ op' \in [Operation -> [status : OpStatus, plan : Plans, by : Actor]]
      /\ op[o].status = "awaiting_approval" /\ op'[o].status = s
      /\ \A u \in Operation : /\ op'[u].plan = op[u].plan /\ op'[u].by = op[u].by
                              /\ u # o => op'[u] = op[u]
  BY <1>1, TransitionShape
<1>3. TypeOK'
  BY <1>1, <1>2, NothingChosen DEF TypeOK, Leave, executing
<1>4. DecideInv'
  <2>1. s # "none" /\ s # "awaiting_approval"  BY DEF Refused
  <2>a. \A u \in Operation : /\ op'[u].plan = op[u].plan /\ op'[u].by = op[u].by
                             /\ op[u].status # "none" => op'[u].status # "none"
    BY <1>2, <2>1
  <2>2. DecisionsOK'
    <3>1. \A d \in decisions : d.op \in Operation  BY <1>1 DEF TypeOK, Decision
    <3> QED  BY <1>1, <2>a, <3>1 DEF DecideInv, DecisionsOK, Signed
  <2>3. ResolversOK'
    <3> SUFFICES ASSUME NEW k \in Caller, pc'[k] \in {"append", "grant"}
                 PROVE  /\ pc'[k] = "append" => Signed(asks[k])'
                        /\ pc'[k] = "grant" => Enough(asks[k].op)'
      BY DEF ResolversOK
    <3>1. k # c /\ pc'[k] = pc[k] /\ asks'[k] = asks[k] /\ asks[k].op \in Operation
      BY <1>1 DEF TypeOK, Leave, Decision
    <3>2. pc[k] = "append" => Signed(asks[k])'
      BY <1>1, <2>a, <3>1 DEF DecideInv, ResolversOK, Signed
    <3>3. pc[k] = "grant" => Enough(asks[k].op)'
      BY <1>1, <2>a, <3>1 DEF DecideInv, ResolversOK, Enough, Approvals
    <3> QED  BY <3>1, <3>2, <3>3
  <2>4. WaitingOK'
    BY <1>1, <1>2, <2>1 DEF DecideInv, WaitingOK, Denied
  <2>5. OnlyGranted'
    <3> SUFFICES ASSUME NEW u \in Operation, Past(u)'
                 PROVE  Granted(u) /\ ~Denied(op[u].plan, op[u].by)
      BY <1>2 DEF OnlyGranted, Granted, Denied
    <3>1. CASE u = o
      <4>1. s = "approved"  BY <1>2, <3>1 DEF Past, Refused, Over
      <4> QED  BY <1>1, <1>2, <3>1, <4>1, EnoughIsGranted DEF DecideInv, WaitingOK
    <3>2. CASE u # o
      BY <1>1, <1>2, <3>2 DEF Past, DecideInv, OnlyGranted
    <3> QED  BY <3>1, <3>2
  <2> QED  BY <2>2, <2>3, <2>4, <2>5 DEF DecideInv
<1>5. ExecuteInv'
  <2>1. \A u \in Operation :
          \/ op'[u] = op[u]
          \/ /\ op[u].status \in {"none", "awaiting_approval"}
             /\ op'[u].status \in {"awaiting_approval", "approved"} \cup Refused
    BY <1>2
  <2> QED  BY <1>1, <2>1, ExecuteFrame DEF executing
<1> QED  BY <1>3, <1>4, <1>5 DEF IInv

LEMMA ExpireOK ==
  ASSUME IInv, NEW c \in Caller, Expire(c)
  PROVE  IInv'
<1>1. asks[c].op \in Operation /\ lapsed \subseteq Operation /\ acked \subseteq Operation
      /\ calls \in Nat /\ crashes \in Nat
  BY DEF IInv, TypeOK, Decision
<1>2. CASE Transition(asks[c].op, {"awaiting_approval"}, "expired")
  BY <1>1, <1>2, LeaveTransitionOK DEF Expire, Refused
<1>3. CASE UNCHANGED op
  BY <1>1, <1>3, LeaveOK DEF Expire, tables
<1> QED  BY <1>2, <1>3 DEF Expire

LEMMA AppendDecisionOK ==
  ASSUME IInv, NEW c \in Caller, AppendDecision(c)
  PROVE  IInv'
<1> DEFINE d == asks[c]
<1>1. TypeOK /\ DecideInv /\ ExecuteInv /\ d \in Decision /\ Signed(d)
  BY DEF IInv, TypeOK, DecideInv, ResolversOK, AppendDecision
<1>2. decisions \subseteq decisions' /\ decisions' \subseteq decisions \cup {d}
      /\ UNCHANGED op
  BY DEF AppendDecision
<1>3. \A k \in Caller : pc'[k] \in {"append", "grant"} =>
        k # c /\ pc'[k] = pc[k] /\ asks'[k] = asks[k]
  BY <1>1 DEF AppendDecision, Leave, Goto, TypeOK
<1>4. TypeOK'
  <2>1. pc' \in [Caller -> {"idle", "expire", "append", "refuse", "count", "grant"}]
        /\ asks' \in [Caller -> Decision]
    BY <1>1, NothingChosen DEF AppendDecision, Leave, Goto, TypeOK
  <2>2. decisions' \subseteq Decision  BY <1>1, <1>2 DEF TypeOK
  <2> HIDE DEF d
  <2> QED  BY <1>1, <2>1, <2>2 DEF AppendDecision, TypeOK, executing
<1>5. DecideInv'
  <2> HIDE DEF d
  <2>1. DecisionsOK'
    BY <1>1, <1>2 DEF DecideInv, DecisionsOK, Signed
  <2>2. ResolversOK'
    BY <1>1, <1>2, <1>3 DEF DecideInv, ResolversOK, Signed, Enough, Approvals
  <2>3. WaitingOK'  BY <1>1, <1>2 DEF DecideInv, WaitingOK
  <2>4. OnlyGranted'
    BY <1>1, <1>2 DEF DecideInv, OnlyGranted, Past, Granted
  <2> QED  BY <2>1, <2>2, <2>3, <2>4 DEF DecideInv
<1>6. ExecuteInv'
  BY <1>1, ExecuteFrame DEF AppendDecision, executing
<1> QED  BY <1>4, <1>5, <1>6 DEF IInv

LEMMA RefuseOK ==
  ASSUME IInv, NEW c \in Caller, Refuse(c)
  PROVE  IInv'
<1>1. asks[c].op \in Operation /\ lapsed \subseteq Operation /\ acked \subseteq Operation
      /\ calls \in Nat /\ crashes \in Nat
  BY DEF IInv, TypeOK, Decision
<1>2. acked' \subseteq Operation  BY <1>1 DEF Refuse, Acknowledge
<1>3. ASSUME NEW s \in Refused, Transition(asks[c].op, {"awaiting_approval"}, s)
      PROVE  IInv'
  <2>1. s # "approved"  BY DEF Refused
  <2> QED  BY <1>1, <1>2, <1>3, <2>1, LeaveTransitionOK DEF Refuse
<1>4. CASE UNCHANGED op
  BY <1>1, <1>2, <1>4, LeaveOK DEF Refuse, tables
<1> QED  BY <1>3, <1>4 DEF Refuse, Refused

LEMMA CountOK ==
  ASSUME IInv, NEW c \in Caller, Count(c)
  PROVE  IInv'
<1>1. asks[c] \in Decision /\ asks[c].op \in Operation /\ lapsed \subseteq Operation
      /\ acked \subseteq Operation /\ calls \in Nat /\ crashes \in Nat
      /\ asks \in [Caller -> Decision]
  BY DEF IInv, TypeOK, Decision
<1>2. acked' \subseteq Operation  BY <1>1 DEF Count, Acknowledge
<1>3. CASE Enough(asks[c].op) /\ Goto(c, "grant")
  <2>1. asks' = [asks EXCEPT ![c] = asks[c]]  BY <1>1, <1>3 DEF Goto
  <2> QED  BY <1>1, <1>2, <1>3, <2>1, MoveOK DEF Count, Goto
<1>4. CASE Leave(c)
  BY <1>1, <1>2, <1>4, LeaveOK DEF Count
<1> QED  BY <1>3, <1>4 DEF Count

LEMMA GrantOK ==
  ASSUME IInv, NEW c \in Caller, Grant(c)
  PROVE  IInv'
<1>1. asks[c].op \in Operation /\ lapsed \subseteq Operation /\ acked \subseteq Operation
      /\ calls \in Nat /\ crashes \in Nat /\ Enough(asks[c].op)
  BY DEF IInv, TypeOK, Decision, DecideInv, ResolversOK, Grant
<1>2. acked' \subseteq Operation  BY <1>1 DEF Grant, Acknowledge
<1>3. CASE Transition(asks[c].op, {"awaiting_approval"}, "approved")
  BY <1>1, <1>2, <1>3, LeaveTransitionOK DEF Grant
<1>4. CASE UNCHANGED op
  BY <1>1, <1>2, <1>4, LeaveOK DEF Grant, tables
<1> QED  BY <1>3, <1>4 DEF Grant

LEMMA CrashResolveOK ==
  ASSUME IInv, NEW c \in Caller, CrashResolve(c)
  PROVE  IInv'
<1>1. lapsed \subseteq Operation /\ acked \subseteq Operation /\ calls \in Nat
      /\ crashes + 1 \in Nat
  BY DEF IInv, TypeOK
<1> QED  BY <1>1, LeaveOK DEF CrashResolve

LEMMA LapseOK ==
  ASSUME IInv, NEW o \in Operation, Lapse(o)
  PROVE  IInv'
<1>1. lapsed' \subseteq Operation /\ acked \subseteq Operation /\ calls \in Nat
      /\ crashes \in Nat
  BY DEF IInv, TypeOK, Lapse
<1> QED  BY <1>1, AsideOK DEF Lapse

-----------------------------------------------------------------------------
(* execute_approved *)

(* What a step of executor x cannot disturb: the other executors, the      *)
(* attempts of other plans and what is told of other operations.           *)
LEMMA OthersOK ==
  ASSUME TypeOK, ExecuteInv, NEW x \in Executor, xpc[x] \notin {"idle", "begin"},
         \A y \in Executor \ {x} : xpc'[y] = xpc[y] /\ xop'[y] = xop[y],
         xpc'[x] = "idle" \/ xop'[x] = xop[x],
         \A u \in Operation : /\ op'[u].plan = op[u].plan
                              /\ u # xop[x] => op'[u] = op[u],
         \A p \in Plans \ {Key(x)} : attempt'[p] = attempt[p] /\ applied'[p] = applied[p],
         \/ attempt'[Key(x)] = attempt[Key(x)] /\ applied'[Key(x)] = applied[Key(x)]
         \/ attempt[Key(x)].st = "none"
         \/ attempt[Key(x)] = [op |-> xop[x], st |-> "executing"]
  PROVE  /\ \A y \in Executor \ {x} : ExecutorOK(y)'
         /\ OneExecutor'
         /\ \A p \in Plans \ {Key(x)} : AttemptOK(p)'
         /\ \A u \in Operation \ {xop[x]} : Told(u)'
<1>1. xop[x] \in Operation /\ Key(x) \in Plans  BY DEF TypeOK, Key
<1>2. ASSUME NEW y \in Executor \ {x}
      PROVE  ExecutorOK(y)'
  <2>1. CASE xpc[y] \in {"idle", "begin"}
    BY <2>1 DEF ExecutorOK, Working
  <2>2. CASE xpc[y] \notin {"idle", "begin"}
    <3>1. xop[y] # xop[x] /\ xop[y] \in Operation /\ Key(y) \in Plans
      BY <2>2 DEF ExecuteInv, OneExecutor, TypeOK, Key
    <3>2. op'[xop[y]] = op[xop[y]] /\ Key(y)' = Key(y)  BY <3>1 DEF Key
    <3>3. ExecutorOK(y)  BY DEF ExecuteInv, ExecutorsOK
    <3>4. CASE attempt'[Key(y)] = attempt[Key(y)] /\ applied'[Key(y)] = applied[Key(y)]
      BY <3>2, <3>3, <3>4 DEF ExecutorOK
    <3>5. CASE Key(y) = Key(x) /\ attempt[Key(x)].st = "none"
      BY <3>2, <3>3, <3>5 DEF ExecutorOK
    <3>6. CASE Key(y) = Key(x) /\ attempt[Key(x)] = [op |-> xop[x], st |-> "executing"]
      BY <3>1, <3>2, <3>3, <3>6 DEF ExecutorOK
    <3> QED  BY <3>1, <3>4, <3>5, <3>6
  <2> QED  BY <2>1, <2>2
<1>3. OneExecutor'
  BY DEF ExecuteInv, OneExecutor
<1>4. ASSUME NEW p \in Plans \ {Key(x)}
      PROVE  AttemptOK(p)'
  <2>1. AttemptOK(p) /\ attempt[p].op \in Operation
    BY DEF ExecuteInv, AttemptsOK, TypeOK
  <2>2. attempt[p].st # "none" => attempt[p].op # xop[x]
    BY <2>1 DEF AttemptOK, Key
  <2> QED  BY <2>1, <2>2 DEF AttemptOK
<1>5. ASSUME NEW u \in Operation \ {xop[x]}
      PROVE  Told(u)'
  <2>1. Told(u) /\ op'[u] = op[u] /\ op[u].plan \in Plans
    BY DEF ExecuteInv, OutcomeIsTold, TypeOK
  <2> QED  BY <2>1 DEF Told
<1> QED  BY <1>2, <1>3, <1>4, <1>5

(* An executor that is about to begin, or has ended, disturbs nobody.      *)
LEMMA RestingOK ==
  ASSUME IInv, NEW x \in Executor, NEW p \in {"idle", "begin"}, NEW o \in Operation,
         xpc' = [xpc EXCEPT ![x] = p], xop' = [xop EXCEPT ![x] = o],
         UNCHANGED <<tables, resolving, lapsed, acked, applied>>,
         calls' \in Nat, crashes' \in Nat
  PROVE  IInv'
<1>1. TypeOK /\ DecideInv /\ ExecuteInv  BY DEF IInv
<1>2. TypeOK'  BY <1>1 DEF TypeOK, tables, resolving
<1>3. DecideInv'
  BY <1>1, DecideFrame DEF tables, resolving, Past
<1>4. ExecuteInv'
  <2>1. \A y \in Executor : xpc'[y] \notin {"idle", "begin"} =>
          y # x /\ xpc'[y] = xpc[y] /\ xop'[y] = xop[y]
    BY <1>1 DEF TypeOK
  <2>2. \A y \in Executor : ExecutorOK(y)'
    BY <1>1, <2>1 DEF ExecuteInv, ExecutorsOK, ExecutorOK, Working, Key, tables
  <2>3. OneExecutor'  BY <1>1, <2>1 DEF ExecuteInv, OneExecutor
  <2>4. AttemptsOK' /\ OutcomeIsTold'
    BY <1>1 DEF ExecuteInv, AttemptsOK, AttemptOK, OutcomeIsTold, Told, tables
  <2> QED  BY <2>2, <2>3, <2>4 DEF ExecuteInv, ExecutorsOK
<1> QED  BY <1>2, <1>3, <1>4 DEF IInv

(* The step of an executor at work, on operation o for plan k, keeps the   *)
(* invariant if it keeps what is said of this executor, o and k.           *)
LEMMA WorkingOK ==
  ASSUME IInv, NEW x \in Executor, xpc[x] \notin {"idle", "begin"}, TypeOK',
         NEW o \in Operation, o = xop[x], NEW k \in Plans, k = op[o].plan,
         UNCHANGED <<decisions, resolving>>,
         \A y \in Executor \ {x} : xpc'[y] = xpc[y] /\ xop'[y] = xop[y],
         xpc'[x] = "idle" \/ xop'[x] = o,
         \A u \in Operation : /\ op'[u].plan = op[u].plan /\ op'[u].by = op[u].by
                              /\ u # o => op'[u] = op[u],
         \/ op'[o] = op[o]
         \/ op[o].status \in {"executing", "executed"} /\ op'[o].status \in Over,
         \A p \in Plans \ {k} : attempt'[p] = attempt[p] /\ applied'[p] = applied[p],
         \/ attempt'[k] = attempt[k] /\ applied'[k] = applied[k]
         \/ attempt[k].st = "none"
         \/ attempt[k] = [op |-> o, st |-> "executing"],
         ExecutorOK(x)', AttemptOK(k)', Told(o)'
  PROVE  IInv'
<1>1. TypeOK /\ DecideInv /\ ExecuteInv  BY DEF IInv
<1>2. DecideInv'
  <2>1. \A u \in Operation :
           /\ op'[u].plan = op[u].plan /\ op'[u].by = op[u].by
           /\ op[u].status # "none" => op'[u].status # "none"
           /\ op'[u].status = "awaiting_approval" => op[u].status = "awaiting_approval"
           /\ Past(u)' => Past(u)
    <3> SUFFICES /\ op[o].status # "none" => op'[o].status # "none"
                 /\ op'[o].status = "awaiting_approval" =>
                      op[o].status = "awaiting_approval"
                 /\ Past(o)' => Past(o)
      BY DEF Past
    <3> QED  BY DEF Past, Over
  <2> QED  BY <1>1, <2>1, DecideFrame DEF resolving
<1>3. /\ \A y \in Executor \ {x} : ExecutorOK(y)'
      /\ OneExecutor'
      /\ \A p \in Plans \ {k} : AttemptOK(p)'
      /\ \A u \in Operation \ {o} : Told(u)'
  <2>1. Key(x) = k  BY DEF Key
  <2> QED  BY <1>1, <2>1, OthersOK
<1>4. ExecuteInv'
  <2>1. \A y \in Executor : ExecutorOK(y)'  BY <1>3
  <2>2. \A p \in Plans : AttemptOK(p)'  BY <1>3
  <2>3. \A u \in Operation : Told(u)'  BY <1>3
  <2> QED  BY <1>3, <2>1, <2>2, <2>3 DEF ExecuteInv, ExecutorsOK, AttemptsOK, OutcomeIsTold
<1> QED  BY <1>2, <1>4 DEF IInv

(* The executor at work, its operation and its plan. *)
LEMMA AtWork ==
  ASSUME IInv, NEW x \in Executor
  PROVE  /\ xop[x] \in Operation /\ Key(x) \in Plans
         /\ Key(x) = op[xop[x]].plan
         /\ ExecutorOK(x) /\ AttemptOK(Key(x)) /\ Told(xop[x])
  BY DEF IInv, TypeOK, Key, ExecuteInv, ExecutorsOK, AttemptsOK, OutcomeIsTold

LEMMA ExecuteOK ==
  ASSUME IInv, NEW x \in Executor, Execute(x)
  PROVE  IInv'
<1>1. PICK o \in Operation : xop' = [xop EXCEPT ![x] = o]  BY DEF Execute
<1>2. calls' \in Nat /\ crashes' \in Nat  BY DEF IInv, TypeOK, Execute, Called
<1> QED  BY <1>1, <1>2, RestingOK DEF Execute

LEMMA BeginOK ==
  ASSUME IInv, NEW x \in Executor, Begin(x)
  PROVE  IInv'
<1>1. TypeOK /\ DecideInv /\ ExecuteInv  BY DEF IInv
<1>2. CASE UNCHANGED op /\ XLeave(x)
  <2>1. calls' \in Nat /\ crashes' \in Nat  BY <1>1 DEF TypeOK, Begin, XRest
  <2> QED  BY <1>2, <2>1, NothingChosen, RestingOK DEF Begin, XLeave, XRest, tables
<1>3. CASE Transition(xop[x], {"approved"}, "executing") /\ XGoto(x, "record")
  <2>1. PICK o \in Operation : o = xop[x]  BY <1>1 DEF TypeOK
  <2>2. /\ op' \in [Operation -> [status : OpStatus, plan : Plans, by : Actor]]
        /\ op[o].status = "approved" /\ op'[o].status = "executing"
        /\ \A u \in Operation : /\ op'[u].plan = op[u].plan /\ op'[u].by = op[u].by
                                /\ u # o => op'[u] = op[u]
    BY <1>1, <1>3, <2>1, TransitionShape DEF OpStatus
  <2>3. TypeOK'  BY <1>1, <1>3, <2>2 DEF TypeOK, Begin, XGoto, XRest, resolving
  <2>4. DecideInv'
    <3>1. \A u \in Operation : Past(u)' => Past(u)  BY <2>2 DEF Past
    <3> QED  BY <1>1, <2>2, <3>1, DecideFrame DEF Begin, XRest, resolving
  <2>5. \A y \in Executor \ {x} :
          /\ xpc'[y] = xpc[y] /\ xop'[y] = xop[y] /\ xop[y] \in Operation
          /\ xpc[y] \notin {"idle", "begin"} => xop[y] # o
    <3> SUFFICES ASSUME NEW y \in Executor \ {x}, xpc[y] \notin {"idle", "begin"}
                 PROVE  xop[y] # o
      BY <1>1, <1>3 DEF TypeOK, XGoto
    <3>1. xpc[y] \in Working \cup {"verify", "complete"}  BY <1>1 DEF TypeOK, Working
    <3>2. ExecutorOK(y)  BY <1>1 DEF ExecuteInv, ExecutorsOK
    <3> QED  BY <2>2, <3>1, <3>2 DEF ExecutorOK
  <2>6. xpc'[x] = "record" /\ xop'[x] = o /\ UNCHANGED <<attempt, applied>>
    BY <1>1, <1>3, <2>1 DEF TypeOK, XGoto, Begin
  <2>7. ExecutorsOK'
    <3>1. ASSUME NEW y \in Executor \ {x}
          PROVE  ExecutorOK(y)'
      <4>1. ExecutorOK(y)  BY <1>1 DEF ExecuteInv, ExecutorsOK
      <4>2. CASE xpc[y] \in {"idle", "begin"}
        BY <2>5, <4>2 DEF ExecutorOK, Working
      <4>3. CASE xpc[y] \notin {"idle", "begin"}
        <5>1. op'[xop'[y]] = op[xop[y]] /\ Key(y)' = Key(y)
          BY <2>2, <2>5, <4>3 DEF Key
        <5> QED  BY <2>5, <2>6, <4>1, <5>1 DEF ExecutorOK
      <4> QED  BY <4>2, <4>3
    <3>2. ExecutorOK(x)'  BY <2>2, <2>6 DEF ExecutorOK
    <3> QED  BY <3>1, <3>2 DEF ExecutorsOK
  <2>8. OneExecutor'
    <3>1. \A y \in Executor : y = x \/ y \in Executor \ {x}  OBVIOUS
    <3> QED  BY <1>1, <2>5, <2>6, <3>1 DEF ExecuteInv, OneExecutor
  <2>9. AttemptsOK'
    <3> SUFFICES ASSUME NEW p \in Plans  PROVE  AttemptOK(p)'
      BY DEF AttemptsOK
    <3>1. AttemptOK(p) /\ attempt[p].op \in Operation
      BY <1>1 DEF ExecuteInv, AttemptsOK, TypeOK
    <3> QED  BY <2>2, <2>6, <3>1 DEF AttemptOK
  <2>10. OutcomeIsTold'
    <3> SUFFICES ASSUME NEW u \in Operation  PROVE  Told(u)'
      BY DEF OutcomeIsTold
    <3>1. CASE u = o  BY <2>2, <3>1 DEF Told
    <3>2. CASE u # o
      BY <1>1, <2>2, <2>6, <3>2 DEF ExecuteInv, OutcomeIsTold, Told
    <3> QED  BY <3>1, <3>2
  <2> QED  BY <2>3, <2>4, <2>7, <2>8, <2>9, <2>10 DEF IInv, ExecuteInv
<1> QED  BY <1>2, <1>3 DEF Begin

LEMMA RecordOK ==
  ASSUME IInv, NEW x \in Executor, Record(x)
  PROVE  IInv'
<1>1. PICK o \in Operation, k \in Plans : o = xop[x] /\ k = op[o].plan /\ Key(x) = k
  BY AtWork
<1>2. TypeOK /\ ExecutorOK(x) /\ AttemptOK(k) /\ Told(o) /\ xpc[x] = "record"
  BY <1>1, AtWork DEF IInv, Record
<1>3. CASE XLeave(x) /\ UNCHANGED attempt
  <2>1. calls' \in Nat /\ crashes' \in Nat  BY <1>2 DEF TypeOK, Record, XRest
  <2> QED  BY <1>3, <2>1, NothingChosen, RestingOK DEF Record, XLeave, XRest, tables
<1>4. CASE /\ attempt[k].st = "none"
           /\ attempt' = [attempt EXCEPT ![k] = [op |-> o, st |-> "executing"]]
           /\ XGoto(x, "call")
  <2>1. /\ op[o].status = "executing" /\ UNCHANGED <<op, applied>>
        /\ attempt'[k] = [op |-> o, st |-> "executing"] /\ applied[k] = 0
        /\ \A p \in Plans \ {k} : attempt'[p] = attempt[p]
        /\ xpc'[x] = "call" /\ xop'[x] = o
        /\ \A y \in Executor \ {x} : xpc'[y] = xpc[y] /\ xop'[y] = xop[y]
    BY <1>1, <1>2, <1>4 DEF TypeOK, XGoto, Record, ExecutorOK, Working, AttemptOK
  <2>2. TypeOK'
    BY <1>1, <1>2, <1>4 DEF TypeOK, Record, XGoto, XRest, resolving
  <2>3. ExecutorOK(x)'  BY <1>1, <2>1 DEF ExecutorOK, Key, Working
  <2>4. AttemptOK(k)'  BY <1>1, <2>1 DEF AttemptOK
  <2>5. Told(o)'  BY <2>1 DEF Told, Over
  <2> QED
    BY <1>1, <1>2, <1>4, <2>1, <2>2, <2>3, <2>4, <2>5, WorkingOK DEF Record, XRest
<1> QED  BY <1>1, <1>3, <1>4 DEF Record

LEMMA CallOK ==
  ASSUME IInv, NEW x \in Executor, Call(x)
  PROVE  IInv'
<1>1. PICK o \in Operation, k \in Plans : o = xop[x] /\ k = op[o].plan /\ Key(x) = k
  BY AtWork
<1>2. TypeOK /\ ExecutorOK(x) /\ AttemptOK(k) /\ Told(o) /\ xpc[x] = "call"
  BY <1>1, AtWork DEF IInv, Call
<1>3. PICK answer \in {"success", "failed", "uncertain", "raised"},
           n \in {0, 1} :
        /\ \/ answer = "raised" /\ XLeave(x)
           \/ answer = "success" /\ XGoto(x, "executed")
           \/ answer \in {"failed", "uncertain"} /\ XGoto(x, answer)
        /\ answer = "success" => n = 1
        /\ answer = "failed" => n = 0
        /\ applied' = [applied EXCEPT ![k] = @ + n]
  BY <1>1 DEF Call
<1>4. /\ op[o].status = "executing" /\ UNCHANGED <<op, attempt>>
      /\ attempt[k] = [op |-> o, st |-> "executing"] /\ applied[k] = 0
      /\ applied'[k] = n
      /\ \A p \in Plans \ {k} : applied'[p] = applied[p]
      /\ \A y \in Executor \ {x} : xpc'[y] = xpc[y] /\ xop'[y] = xop[y]
  BY <1>1, <1>2, <1>3 DEF TypeOK, XGoto, XLeave, Call, tables, ExecutorOK, Working
<1>5. \/ xpc'[x] = "idle"
      \/ /\ xop'[x] = o
         /\ \/ xpc'[x] = "executed" /\ n = 1
            \/ xpc'[x] = "failed" /\ n = 0
            \/ xpc'[x] = "uncertain"
  BY <1>1, <1>2, <1>3 DEF TypeOK, XGoto, XLeave
<1>6. TypeOK'
  <2>1. applied' \in [Plans -> Nat]  BY <1>2, <1>3 DEF TypeOK
  <2>2. /\ xpc' \in [Executor -> {"idle", "begin", "record", "call", "failed",
                       "uncertain", "close_failed", "close_uncertain", "executed",
                       "verify", "complete"}]
        /\ xop' \in [Executor -> Operation]
    BY <1>2, <1>3, NothingChosen DEF TypeOK, XGoto, XLeave
  <2> QED  BY <1>2, <2>1, <2>2 DEF TypeOK, Call, tables, XRest, resolving
<1>7. ExecutorOK(x)'  BY <1>1, <1>4, <1>5 DEF ExecutorOK, Key, Working
<1>8. AttemptOK(k)'  BY <1>1, <1>4 DEF AttemptOK
<1>9. Told(o)'  BY <1>4 DEF Told, Over
<1> QED  BY <1>1, <1>2, <1>4, <1>5, <1>6, <1>7, <1>8, <1>9, WorkingOK DEF Call, XRest

LEMMA NoteFailureOK ==
  ASSUME IInv, NEW x \in Executor, NoteFailure(x)
  PROVE  IInv'
<1>1. PICK o \in Operation, k \in Plans : o = xop[x] /\ k = op[o].plan /\ Key(x) = k
  BY AtWork
<1>2. /\ TypeOK /\ ExecutorOK(x) /\ AttemptOK(k) /\ Told(o)
      /\ xpc[x] \in {"failed", "uncertain"}
  BY <1>1, AtWork DEF IInv, NoteFailure
<1>3. attempt[k] = [op |-> o, st |-> "executing"]
  BY <1>1 DEF NoteFailure
<1>4. attempt' = [attempt EXCEPT ![k] = [op |-> o, st |-> xpc[x]]]
  <2>1. attempt' = [attempt EXCEPT ![k].st = xpc[x]]  BY <1>1 DEF NoteFailure
  <2>2. [attempt[k] EXCEPT !.st = xpc[x]] = [op |-> o, st |-> xpc[x]]  BY <1>3
  <2> QED  BY <1>2, <2>1, <2>2 DEF TypeOK
<1>5. /\ op[o].status = "executing" /\ UNCHANGED <<op, applied>>
      /\ attempt'[k] = [op |-> o, st |-> xpc[x]]
      /\ xpc[x] = "failed" => applied[k] = 0
      /\ \A p \in Plans \ {k} : attempt'[p] = attempt[p]
      /\ xpc'[x] = (IF xpc[x] = "failed" THEN "close_failed" ELSE "close_uncertain")
      /\ xop'[x] = o
      /\ \A y \in Executor \ {x} : xpc'[y] = xpc[y] /\ xop'[y] = xop[y]
  BY <1>1, <1>2, <1>4 DEF TypeOK, XGoto, NoteFailure, ExecutorOK, Working
<1>6. TypeOK'
  <2>1. attempt' \in [Plans -> [op : Operation,
                        st : {"none", "executing", "executed", "failed", "uncertain"}]]
    BY <1>2, <1>4 DEF TypeOK
  <2> QED  BY <1>2, <2>1 DEF TypeOK, NoteFailure, XGoto, XRest, resolving
<1>7. ExecutorOK(x)'  BY <1>1, <1>2, <1>5 DEF ExecutorOK, Key, Working
<1>8. AttemptOK(k)'  BY <1>1, <1>2, <1>5 DEF AttemptOK
<1>9. Told(o)'  BY <1>5 DEF Told, Over
<1> QED
  BY <1>1, <1>2, <1>3, <1>5, <1>6, <1>7, <1>8, <1>9, WorkingOK DEF NoteFailure, XRest

LEMMA CloseFailureOK ==
  ASSUME IInv, NEW x \in Executor, CloseFailure(x)
  PROVE  IInv'
<1>1. PICK o \in Operation, k \in Plans : o = xop[x] /\ k = op[o].plan /\ Key(x) = k
  BY AtWork
<1>2. TypeOK /\ ExecutorOK(x) /\ AttemptOK(k) /\ Told(o)
  BY <1>1, AtWork DEF IInv
<1>3. PICK to \in {"execution_failed", "uncertain"} :
        /\ Transition(o, {"executing"}, to)
        /\ xpc[x] = (IF to = "uncertain" THEN "close_uncertain" ELSE "close_failed")
  BY <1>1 DEF CloseFailure
<1>4. xop' \in [Executor -> Operation] /\ to \in OpStatus /\ UNCHANGED <<attempt, applied, XRest>>
  BY <1>2, NothingChosen DEF TypeOK, CloseFailure, XLeave, OpStatus, Over
<1>5. /\ TypeOK' /\ xpc'[x] = "idle"
      /\ op[o].status = "executing" /\ op'[o].status = to
      /\ \A u \in Operation : /\ op'[u].plan = op[u].plan /\ op'[u].by = op[u].by
                              /\ u # o => op'[u] = op[u]
      /\ \A y \in Executor \ {x} : xpc'[y] = xpc[y] /\ xop'[y] = xop[y]
  <2>1. /\ op' \in [Operation -> [status : OpStatus, plan : Plans, by : Actor]]
        /\ op[o].status = "executing" /\ op'[o].status = to
        /\ \A u \in Operation : /\ op'[u].plan = op[u].plan /\ op'[u].by = op[u].by
                                /\ u # o => op'[u] = op[u]
    BY <1>2, <1>3, <1>4, TransitionShape
  <2>2. TypeOK'
    BY <1>2, <1>4, <2>1 DEF TypeOK, CloseFailure, XLeave, XRest, resolving
  <2> QED  BY <1>2, <2>1, <2>2 DEF CloseFailure, XLeave, TypeOK
<1>6. /\ to = "uncertain" => attempt[k] = [op |-> o, st |-> "uncertain"]
      /\ to # "uncertain" => attempt[k] = [op |-> o, st |-> "failed"] /\ applied[k] = 0
  BY <1>1, <1>2, <1>3 DEF ExecutorOK
<1>7. ExecutorOK(x)'  BY <1>5 DEF ExecutorOK, Working
<1>8. AttemptOK(k)'
  BY <1>1, <1>2, <1>4, <1>5, <1>6 DEF AttemptOK, Over
<1>9. Told(o)'  BY <1>1, <1>4, <1>5, <1>6 DEF Told, Over
<1> QED
  BY <1>1, <1>3, <1>4, <1>5, <1>7, <1>8, <1>9, WorkingOK DEF XRest, Over

LEMMA MarkExecutedOK ==
  ASSUME IInv, NEW x \in Executor, MarkExecuted(x)
  PROVE  IInv'
<1>1. PICK o \in Operation, k \in Plans : o = xop[x] /\ k = op[o].plan /\ Key(x) = k
  BY AtWork
<1>2. TypeOK /\ ExecutorOK(x) /\ AttemptOK(k) /\ Told(o) /\ xpc[x] = "executed"
  BY <1>1, AtWork DEF IInv, MarkExecuted
<1>3. /\ xop' \in [Executor -> Operation] /\ "executed" \in OpStatus
      /\ UNCHANGED <<xop, attempt, applied, XRest>>
  BY <1>2 DEF TypeOK, MarkExecuted, XGoto, OpStatus, Over
<1>4. /\ TypeOK' /\ xpc'[x] = "verify"
      /\ op[o].status = "executing" /\ op'[o].status = "executed"
      /\ \A u \in Operation : /\ op'[u].plan = op[u].plan /\ op'[u].by = op[u].by
                              /\ u # o => op'[u] = op[u]
      /\ \A y \in Executor \ {x} : xpc'[y] = xpc[y]
  <2>1. /\ op' \in [Operation -> [status : OpStatus, plan : Plans, by : Actor]]
        /\ op[o].status = "executing" /\ op'[o].status = "executed"
        /\ \A u \in Operation : /\ op'[u].plan = op[u].plan /\ op'[u].by = op[u].by
                                /\ u # o => op'[u] = op[u]
    BY <1>1, <1>2, <1>3, TransitionShape DEF MarkExecuted
  <2>2. TypeOK'
    BY <1>2, <1>3, <2>1 DEF TypeOK, MarkExecuted, XGoto, XRest, resolving
  <2> QED  BY <1>2, <2>1, <2>2 DEF MarkExecuted, XGoto, TypeOK
<1>5. attempt[k] = [op |-> o, st |-> "executing"] /\ applied[k] = 1
  BY <1>1, <1>2 DEF ExecutorOK
<1>6. ExecutorOK(x)'  BY <1>1, <1>3, <1>4, <1>5 DEF ExecutorOK, Working, Key
<1>7. AttemptOK(k)'  BY <1>1, <1>3, <1>4, <1>5 DEF AttemptOK, Over
<1>8. Told(o)'  BY <1>1, <1>3, <1>4, <1>5 DEF Told, Over
<1> QED
  BY <1>1, <1>2, <1>3, <1>4, <1>6, <1>7, <1>8, WorkingOK DEF XRest, Over

LEMMA VerifyOK ==
  ASSUME IInv, NEW x \in Executor, Verify(x)
  PROVE  IInv'
<1>1. PICK o \in Operation, k \in Plans : o = xop[x] /\ k = op[o].plan /\ Key(x) = k
  BY AtWork
<1>2. TypeOK /\ ExecutorOK(x) /\ AttemptOK(k) /\ Told(o) /\ xpc[x] = "verify"
  BY <1>1, AtWork DEF IInv, Verify
<1>3. CASE XLeave(x) /\ UNCHANGED op
  <2>1. calls' \in Nat /\ crashes' \in Nat  BY <1>2 DEF TypeOK, Verify, XRest
  <2> QED  BY <1>3, <2>1, NothingChosen, RestingOK DEF Verify, XLeave, XRest, tables
<1>4. ASSUME NEW s \in {"succeeded", "executed_verification_failed"},
             Transition(o, {"executed"}, s), XGoto(x, "complete")
      PROVE  IInv'
  <2>1. /\ xop' \in [Executor -> Operation] /\ s \in OpStatus
        /\ UNCHANGED <<xop, attempt, applied, XRest>>
    BY <1>2, <1>4 DEF TypeOK, Verify, XGoto, OpStatus, Over
  <2>2. /\ TypeOK' /\ xpc'[x] = "complete"
        /\ op[o].status = "executed" /\ op'[o].status = s
        /\ \A u \in Operation : /\ op'[u].plan = op[u].plan /\ op'[u].by = op[u].by
                                /\ u # o => op'[u] = op[u]
        /\ \A y \in Executor \ {x} : xpc'[y] = xpc[y]
    <3>1. /\ op' \in [Operation -> [status : OpStatus, plan : Plans, by : Actor]]
          /\ op[o].status = "executed" /\ op'[o].status = s
          /\ \A u \in Operation : /\ op'[u].plan = op[u].plan /\ op'[u].by = op[u].by
                                  /\ u # o => op'[u] = op[u]
      BY <1>2, <1>4, <2>1, TransitionShape
    <3>2. TypeOK'
      BY <1>2, <1>4, <2>1, <3>1 DEF TypeOK, XGoto, XRest, resolving
    <3> QED  BY <1>2, <1>4, <3>1, <3>2 DEF XGoto, TypeOK
  <2>3. attempt[k] = [op |-> o, st |-> "executing"] /\ applied[k] = 1
    BY <1>1, <1>2 DEF ExecutorOK
  <2>4. ExecutorOK(x)'  BY <1>1, <2>1, <2>2, <2>3 DEF ExecutorOK, Working, Key
  <2>5. AttemptOK(k)'  BY <1>1, <2>1, <2>2, <2>3 DEF AttemptOK, Over
  <2>6. Told(o)'  BY <1>1, <2>1, <2>2, <2>3 DEF Told, Over
  <2> QED
    BY <1>1, <1>2, <2>1, <2>2, <2>4, <2>5, <2>6, WorkingOK DEF XRest, Over
<1> QED  BY <1>1, <1>3, <1>4 DEF Verify

LEMMA CompleteOK ==
  ASSUME IInv, NEW x \in Executor, Complete(x)
  PROVE  IInv'
<1>1. PICK o \in Operation, k \in Plans : o = xop[x] /\ k = op[o].plan /\ Key(x) = k
  BY AtWork
<1>2. TypeOK /\ ExecutorOK(x) /\ AttemptOK(k) /\ Told(o) /\ xpc[x] = "complete"
  BY <1>1, AtWork DEF IInv, Complete
<1>3. attempt[k] = [op |-> o, st |-> "executing"]
  BY <1>1 DEF Complete
<1>4. attempt' = [attempt EXCEPT ![k] = [op |-> o, st |-> "executed"]]
  <2>1. attempt' = [attempt EXCEPT ![k].st = "executed"]  BY <1>1 DEF Complete
  <2>2. [attempt[k] EXCEPT !.st = "executed"] = [op |-> o, st |-> "executed"]  BY <1>3
  <2> QED  BY <1>2, <2>1, <2>2 DEF TypeOK
<1>5. /\ op[o].status \in {"succeeded", "executed_verification_failed"}
      /\ UNCHANGED <<op, applied>> /\ applied[k] = 1
      /\ attempt'[k] = [op |-> o, st |-> "executed"]
      /\ \A p \in Plans \ {k} : attempt'[p] = attempt[p]
      /\ xpc'[x] = "idle"
      /\ \A y \in Executor \ {x} : xpc'[y] = xpc[y] /\ xop'[y] = xop[y]
  BY <1>1, <1>2, <1>4 DEF TypeOK, XLeave, Complete, ExecutorOK
<1>6. TypeOK'
  <2>1. attempt' \in [Plans -> [op : Operation,
                        st : {"none", "executing", "executed", "failed", "uncertain"}]]
    BY <1>2, <1>4 DEF TypeOK
  <2> QED  BY <1>2, <2>1, NothingChosen DEF TypeOK, Complete, XLeave, XRest, resolving
<1>7. ExecutorOK(x)'  BY <1>5 DEF ExecutorOK, Working
<1>8. AttemptOK(k)'  BY <1>1, <1>5 DEF AttemptOK, Over
<1>9. Told(o)'  BY <1>1, <1>5 DEF Told, Over
<1> QED
  BY <1>1, <1>2, <1>3, <1>5, <1>6, <1>7, <1>8, <1>9, WorkingOK DEF Complete, XRest

LEMMA CrashExecuteOK ==
  ASSUME IInv, NEW x \in Executor, CrashExecute(x)
  PROVE  IInv'
<1>1. calls' \in Nat /\ crashes' \in Nat  BY DEF IInv, TypeOK, CrashExecute
<1> QED  BY <1>1, NothingChosen, RestingOK DEF CrashExecute, XLeave

-----------------------------------------------------------------------------
(* All steps *)

LEMMA StepOK ==
  ASSUME IInv, [Next]_vars
  PROVE  IInv'
<1>1. CASE UNCHANGED vars
  <2>1. lapsed' \subseteq Operation /\ acked' \subseteq Operation
        /\ calls' \in Nat /\ crashes' \in Nat
    BY <1>1 DEF vars, IInv, TypeOK
  <2> QED  BY <1>1, <2>1, AsideOK DEF vars
<1>2. CASE \E o \in Operation : Create(o) \/ Lapse(o)
  BY <1>2, CreateOK, LapseOK
<1>3. CASE \E c \in Caller : ResolveStep(c)
  BY <1>3, ResolveOK, ExpireOK, AppendDecisionOK, RefuseOK, CountOK, GrantOK,
     CrashResolveOK DEF ResolveStep
<1>4. CASE \E x \in Executor : ExecuteStep(x)
  BY <1>4, ExecuteOK, BeginOK, RecordOK, CallOK, NoteFailureOK, CloseFailureOK,
     MarkExecutedOK, VerifyOK, CompleteOK, CrashExecuteOK DEF ExecuteStep
<1> QED  BY <1>1, <1>2, <1>3, <1>4 DEF Next

(* The strengthening is inductive, whatever calls interleave and die.      *)
THEOREM Invariance == Spec => []IInv
BY InitOK, StepOK, PTL DEF Spec

-----------------------------------------------------------------------------
(* The theorems *)

(* Every variable keeps to its domain. *)
THEOREM TypeCorrect == Spec => []TypeOK
BY Invariance, PTL DEF IInv

(* Nothing is approved, executing or executed without the approval of      *)
(* every role its plan requires, by an actor who holds it and did not ask  *)
(* for the change; and nothing that the policy denies.                     *)
THEOREM GrantedCorrect == Spec => []OnlyGranted
<1>1. IInv => OnlyGranted  BY DEF IInv, DecideInv
<1> QED  BY <1>1, Invariance, PTL

(* The status of a row tells what happened to the database.                *)
THEOREM OutcomeCorrect == Spec => []OutcomeIsTold
<1>1. IInv => OutcomeIsTold  BY DEF IInv, ExecuteInv
<1> QED  BY <1>1, Invariance, PTL

(* No plan reaches the database twice, however many operations, executors  *)
(* and crashes there are, and none without a granted operation.            *)
THEOREM AppliedAtMostOnce == Spec => []AppliedOnce
<1>1. IInv => AppliedOnce
  <2> SUFFICES ASSUME IInv, NEW p \in Plans
               PROVE  /\ applied[p] <= 1
                      /\ applied[p] = 1 => \E o \in Operation :
                           /\ op[o].plan = p /\ Granted(o)
                           /\ op[o].status \in {"executing"} \cup Over
    BY DEF AppliedOnce
  <2>1. AttemptOK(p) /\ attempt[p].op \in Operation /\ OnlyGranted
    BY DEF IInv, ExecuteInv, AttemptsOK, TypeOK, DecideInv
  <2>2. Past(attempt[p].op) => Granted(attempt[p].op)  BY <2>1 DEF OnlyGranted
  <2> QED  BY <2>1, <2>2 DEF AttemptOK, Past
<1> QED  BY <1>1, Invariance, PTL

(* A request decides once, even when two calls deliver it at a time: the   *)
(* decision is looked for again in the transaction that inserts it.        *)
THEOREM DecidedOnce == Spec => []OneDecisionPerRequest
<1>1. Init => OneDecisionPerRequest
  BY DEF Init, OneDecisionPerRequest
<1>2. OneDecisionPerRequest /\ [Next]_vars => OneDecisionPerRequest'
  <2> SUFFICES ASSUME OneDecisionPerRequest, [Next]_vars
               PROVE  OneDecisionPerRequest'
    OBVIOUS
  <2>1. CASE UNCHANGED decisions
    BY <2>1 DEF OneDecisionPerRequest
  <2>2. ASSUME NEW c \in Caller, AppendDecision(c)
        PROVE  OneDecisionPerRequest'
    <3>1. CASE Prior(asks[c].op, asks[c].req) = {}
      <4>1. decisions' = decisions \cup {asks[c]}  BY <2>2, <3>1 DEF AppendDecision
      <4>2. \A d \in decisions : ~(d.op = asks[c].op /\ d.req = asks[c].req)
        BY <3>1 DEF Prior
      <4> QED  BY <4>1, <4>2 DEF OneDecisionPerRequest
    <3>2. CASE Prior(asks[c].op, asks[c].req) # {}
      BY <2>1, <2>2, <3>2 DEF AppendDecision
    <3> QED  BY <3>1, <3>2
  <2> QED
    BY <2>1, <2>2 DEF Next, ResolveStep, ExecuteStep, vars, tables, XRest, Create, Lapse,
       Resolve, Expire, Refuse, Count, Grant, CrashResolve, Execute, Begin, Record, Call,
       NoteFailure, CloseFailure, MarkExecuted, Verify, Complete, CrashExecute
<1> QED  BY <1>1, <1>2, PTL DEF Spec

-----------------------------------------------------------------------------
(* The tables implement the approval protocol *)

(* Where rows, decisions and the database stay, so does the protocol. *)
LEMMA MapStutter ==
  ASSUME UNCHANGED <<op, decisions, applied>>
  PROVE  UNCHANGED Approval!vars
BY DEF Approval!vars, Approvals

(* A transition of a row is a move of the protocol. *)
LEMMA MapTransition ==
  ASSUME TypeOK, NEW o \in Operation, NEW from, NEW to \in OpStatus,
         Transition(o, from, to), UNCHANGED <<decisions, applied>>
  PROVE  /\ Approval!Move(o, Phase(op[o].status), Phase(to))
         /\ Phase(op[o].status) = Phase(to) => UNCHANGED Approval!vars
<1>1. /\ op' \in [Operation -> [status : OpStatus, plan : Plans, by : Actor]]
      /\ op'[o].status = to
      /\ \A u \in Operation : op'[u].plan = op[u].plan /\ (u # o => op'[u] = op[u])
  BY TransitionShape
<1>2. [u \in Operation |-> Phase(op'[u].status)] =
        [[u \in Operation |-> Phase(op[u].status)] EXCEPT ![o] = Phase(to)]
  BY <1>1
<1>3. /\ [u \in Operation |-> Required(op'[u].plan)] = [u \in Operation |-> Required(op[u].plan)]
      /\ [u \in Operation |-> op'[u].plan] = [u \in Operation |-> op[u].plan]
      /\ [u \in Operation |-> Approvals(u)'] = [u \in Operation |-> Approvals(u)]
  BY <1>1 DEF Approvals
<1> QED  BY <1>2, <1>3 DEF Approval!Move, Approval!vars

LEMMA PhaseOf ==
  /\ Phase("none") = "none" /\ Phase("awaiting_approval") = "waiting"
  /\ Phase("approved") = "granted" /\ Phase("executing") = "executing"
  /\ \A s \in Refused : Phase(s) = "refused"
  /\ \A s \in Over : Phase(s) = "over"
BY DEF Phase, Refused, Over

LEMMA MapInit ==
  ASSUME Init
  PROVE  Approval!Init
<1>1. \A o \in Operation : op[o].status = "none" /\ op[o].plan = NoPlan
  BY DEF Init
<1>2. \A o \in Operation : Approvals(o) = {}  BY DEF Init, Approvals
<1> QED
  BY <1>1, <1>2, PhaseOf, NothingChosen, RequiredAreRoles DEF Init, Approval!Init

LEMMA MapCreate ==
  ASSUME IInv, NEW o \in Operation, Create(o)
  PROVE  Approval!Plan(o)
<1>1. PICK p \in Plans, a \in Actor, s \in {"policy_blocked", "awaiting_approval"} :
        op' = [op EXCEPT ![o] = [status |-> s, plan |-> p, by |-> a]]
  BY DEF Create
<1>2. /\ op'[o].status = s /\ op'[o].plan = p
      /\ \A u \in Operation : u # o => op'[u].status = op[u].status /\ op'[u].plan = op[u].plan
  BY <1>1 DEF IInv, TypeOK
<1>3. [u \in Operation |-> Phase(op'[u].status)] =
        [[u \in Operation |-> Phase(op[u].status)] EXCEPT ![o] = Phase(s)]
  BY <1>2
<1>4. [u \in Operation |-> Required(op'[u].plan)] =
        [[u \in Operation |-> Required(op[u].plan)] EXCEPT ![o] = Required(p)]
  BY <1>2
<1>5. [u \in Operation |-> op'[u].plan] = [[u \in Operation |-> op[u].plan] EXCEPT ![o] = p]
  BY <1>2
<1>6. [u \in Operation |-> Approvals(u)'] = [u \in Operation |-> Approvals(u)]
      /\ UNCHANGED applied
  BY DEF Create, Approvals
<1>7. Phase(op[o].status) = "none"  BY PhaseOf DEF Create
<1>8. Phase(s) \in {"waiting", "refused"}  BY PhaseOf DEF Refused
<1>9. Required(p) \in (SUBSET Role) \ {{}}  BY RequiredAreRoles DEF Required
<1> QED  BY <1>3, <1>4, <1>5, <1>6, <1>7, <1>8, <1>9 DEF Approval!Plan

LEMMA MapAppend ==
  ASSUME IInv, NEW c \in Caller, AppendDecision(c)
  PROVE  Approval!Vote(asks[c].op) \/ UNCHANGED Approval!vars
<1>1. PICK d : d = asks[c]  OBVIOUS
<1>2. /\ d \in Decision /\ d.op \in Operation /\ UNCHANGED <<op, applied>>
      /\ op[d.op].status # "none" /\ d.role \in Required(op[d.op].plan)
  BY <1>1 DEF IInv, TypeOK, Decision, DecideInv, ResolversOK, Signed, AppendDecision
<1>3. CASE decisions' = decisions
  BY <1>2, <1>3, MapStutter
<1>4. CASE decisions' = decisions \cup {d} /\ d.verdict # "approve"
  <2>1. \A o \in Operation : Approvals(o)' = Approvals(o)  BY <1>4 DEF Approvals
  <2> QED  BY <1>2, <2>1 DEF Approval!vars
<1>5. CASE decisions' = decisions \cup {d} /\ d.verdict = "approve"
  <2>1. Approvals(d.op)' = Approvals(d.op) \cup {d.role}  BY <1>5 DEF Approvals
  <2>2. \A o \in Operation \ {d.op} : Approvals(o)' = Approvals(o)
    BY <1>5 DEF Approvals
  <2>3. [o \in Operation |-> Approvals(o)'] =
          [[o \in Operation |-> Approvals(o)] EXCEPT ![d.op] = @ \cup {d.role}]
    BY <1>2, <2>1, <2>2
  <2>4. Phase(op[d.op].status) # "none"
    BY <1>2 DEF IInv, TypeOK, OpStatus, Phase
  <2> QED  BY <1>1, <1>2, <2>3, <2>4 DEF Approval!Vote
<1> QED  BY <1>1, <1>3, <1>4, <1>5 DEF AppendDecision

LEMMA MapCall ==
  ASSUME IInv, NEW x \in Executor, Call(x)
  PROVE  Approval!Apply(xop[x]) \/ UNCHANGED Approval!vars
<1>1. PICK o \in Operation, k \in Plans : o = xop[x] /\ k = op[o].plan /\ Key(x) = k
  BY AtWork
<1>2. /\ applied \in [Plans -> Nat] /\ UNCHANGED <<op, decisions>>
      /\ op[o].status = "executing" /\ applied[k] = 0
  <2>1. TypeOK /\ ExecutorOK(x) /\ xpc[x] = "call"  BY AtWork DEF IInv, Call
  <2> QED  BY <1>1, <2>1 DEF TypeOK, ExecutorOK, Working, Call, tables, XRest
<1>3. PICK n \in {0, 1} : applied' = [applied EXCEPT ![k] = @ + n]
  BY <1>1 DEF Call
<1>4. CASE n = 0
  <2>1. applied' = applied  BY <1>2, <1>3, <1>4
  <2> QED  BY <1>2, <2>1, MapStutter
<1>5. CASE n = 1
  <2>1. applied' = [applied EXCEPT ![k] = 1]  BY <1>2, <1>3, <1>5
  <2>2. Phase(op[o].status) = "executing"  BY <1>2, PhaseOf
  <2> QED  BY <1>1, <1>2, <2>1, <2>2 DEF Approval!Apply, Approvals
<1> QED  BY <1>4, <1>5

LEMMA MapResolve ==
  ASSUME IInv, NEW c \in Caller, ResolveStep(c)
  PROVE  [Approval!Next]_Approval!vars
<1> DEFINE o == asks[c].op
<1>1. TypeOK /\ o \in Operation  BY DEF IInv, TypeOK, Decision
<1>2. CASE Resolve(c) \/ Count(c) \/ CrashResolve(c)
  BY <1>2, MapStutter DEF Resolve, Count, CrashResolve, tables
<1>3. CASE AppendDecision(c)
  BY <1>1, <1>3, MapAppend DEF Approval!Next
<1>4. CASE UNCHANGED <<op, decisions, applied>>
  BY <1>4, MapStutter
<1>5. ASSUME NEW s \in Refused, Transition(o, {"awaiting_approval"}, s),
             UNCHANGED <<decisions, applied>>
      PROVE  [Approval!Next]_Approval!vars
  <2>1. /\ s \in OpStatus /\ op[o].status = "awaiting_approval"
    BY <1>5 DEF OpStatus, Transition
  <2>2. Approval!Move(o, "waiting", "refused")
    BY <1>1, <1>5, <2>1, MapTransition, PhaseOf
  <2> QED  BY <1>1, <2>2 DEF Approval!Next, Approval!Refuse
<1>6. CASE Expire(c)
  BY <1>4, <1>5, <1>6 DEF Expire, Refused
<1>7. CASE Refuse(c)
  BY <1>4, <1>5, <1>7 DEF Refuse, Refused
<1>8. CASE Grant(c)
  <2>1. CASE Transition(o, {"awaiting_approval"}, "approved")
    <3>1. op[o].status = "awaiting_approval" /\ "approved" \in OpStatus
      BY <2>1 DEF Transition, OpStatus
    <3>2. Approval!Move(o, "waiting", "granted")
      BY <1>1, <1>8, <2>1, <3>1, MapTransition, PhaseOf DEF Grant
    <3>3. Required(op[o].plan) \subseteq Approvals(o)
      BY <1>8 DEF IInv, DecideInv, ResolversOK, Grant, Enough
    <3> QED  BY <1>1, <3>2, <3>3 DEF Approval!Next, Approval!Grant
  <2> QED  BY <1>4, <1>8, <2>1 DEF Grant
<1> QED  BY <1>2, <1>3, <1>6, <1>7, <1>8 DEF ResolveStep

LEMMA MapExecute ==
  ASSUME IInv, NEW x \in Executor, ExecuteStep(x)
  PROVE  [Approval!Next]_Approval!vars
<1> DEFINE o == xop[x]
<1>1. TypeOK /\ o \in Operation  BY DEF IInv, TypeOK
<1>2. CASE UNCHANGED <<op, decisions, applied>>
  BY <1>2, MapStutter
<1>3. CASE Execute(x) \/ Record(x) \/ NoteFailure(x) \/ Complete(x) \/ CrashExecute(x)
  BY <1>2, <1>3 DEF Execute, Record, NoteFailure, Complete, CrashExecute, tables, XRest
<1>4. CASE Call(x)
  BY <1>1, <1>4, MapCall DEF Approval!Next
<1>5. CASE Begin(x)
  <2>1. CASE Transition(o, {"approved"}, "executing")
    <3>1. op[o].status = "approved" /\ "executing" \in OpStatus
      BY <2>1 DEF Transition, OpStatus
    <3>2. Approval!Move(o, "granted", "executing")
      BY <1>1, <1>5, <2>1, <3>1, MapTransition, PhaseOf DEF Begin, XRest
    <3> QED  BY <1>1, <3>2 DEF Approval!Next, Approval!Begin
  <2> QED  BY <1>2, <1>5, <2>1 DEF Begin, XRest
<1>6. ASSUME NEW s \in Over, Transition(o, {"executing"}, s),
             UNCHANGED <<decisions, applied>>
      PROVE  [Approval!Next]_Approval!vars
  <2>1. op[o].status = "executing" /\ s \in OpStatus
    BY <1>6 DEF Transition, OpStatus
  <2>2. Approval!Move(o, "executing", "over")
    BY <1>1, <1>6, <2>1, MapTransition, PhaseOf
  <2> QED  BY <1>1, <2>2 DEF Approval!Next, Approval!Finish
<1>7. CASE CloseFailure(x) \/ MarkExecuted(x)
  BY <1>6, <1>7 DEF CloseFailure, MarkExecuted, XRest, Over
<1>8. CASE Verify(x)
  <2>1. ASSUME NEW s \in Over, Transition(o, {"executed"}, s),
               UNCHANGED <<decisions, applied>>
        PROVE  [Approval!Next]_Approval!vars
    <3>1. op[o].status \in Over /\ s \in OpStatus
      BY <2>1 DEF Transition, OpStatus, Over
    <3> QED  BY <1>1, <2>1, <3>1, MapTransition, PhaseOf
  <2> QED  BY <1>2, <1>8, <2>1 DEF Verify, XRest, Over
<1> QED  BY <1>3, <1>4, <1>5, <1>7, <1>8 DEF ExecuteStep

(* The tables of operation_store.py and the calls of service.py implement  *)
(* the approval protocol: each of their steps is one of its steps or none. *)
THEOREM ApprovalImplemented == Spec => ApprovalSpec
<1>1. Init => Approval!Init  BY MapInit
<1>2. IInv /\ [Next]_vars => [Approval!Next]_Approval!vars
  <2> SUFFICES ASSUME IInv, [Next]_vars
               PROVE  [Approval!Next]_Approval!vars
    OBVIOUS
  <2>1. CASE UNCHANGED vars
    BY <2>1, MapStutter DEF vars, tables
  <2>2. ASSUME NEW o \in Operation, Create(o) \/ Lapse(o)
        PROVE  [Approval!Next]_Approval!vars
    <3>1. CASE Create(o)
      BY <3>1, MapCreate DEF Approval!Next
    <3>2. CASE Lapse(o)
      BY <3>2, MapStutter DEF Lapse, tables
    <3> QED  BY <2>2, <3>1, <3>2
  <2> QED  BY <2>1, <2>2, MapResolve, MapExecute DEF Next
<1> QED  BY <1>1, <1>2, Invariance, PTL DEF Spec, ApprovalSpec, Approval!Spec
=============================================================================
