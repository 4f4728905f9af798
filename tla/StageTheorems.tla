---------------------------- MODULE StageTheorems ----------------------------
(* What is proved of the hybrid stages and their budget, for any number of   *)
(* stages, ledgers, claims, attempts and restarts and any limits.            *)
EXTENDS StageProperties, FiniteSetTheorems, TLAPS

(* A reservation is still counted while its answer is awaited.               *)
Asking(l) == {c \in Callers : Ledger[c] = l /\ model[c].st = "asked"}
ReservationsCounted ==
  \A l \in Ledgers: Estimate * Cardinality(Asking(l)) <= usage[l].tokens

(* A call that is about to ask has an attempt left.                          *)
CallsTyped ==
  /\ model \in [Callers -> ModelCall]
  /\ \A c \in Callers: model[c].st \in {"ready", "backoff"} => model[c].attempt <= MaxRetries

(* The ledgers count what is reserved, within the limits, and until the row  *)
(* has taken in the results it has nothing to give back after a restart.     *)
LedgerSound ==
  /\ CallsTyped /\ ReservationsCounted
  /\ usage \in [Ledgers -> Usage]
  /\ ~joined => spent = NoUsage
  /\ LimitsHold

(* An identifier has one content.                                            *)
OneContent == \A e, f \in evidence: e.id = f.id => e.rejected = f.rejected

(* What a stage is about to relate has evidence, stored or still to be.      *)
AcceptedIsBacked == \A s \in Callers: stage[s].at = "write" =>
  \A id \in stage[s].accepted:
    /\ id.claim \notin Wrong
    /\ [id |-> id, rejected |-> FALSE] \in stage[s].items \cup evidence

-----------------------------------------------------------------------------
(* How a call that is replaced changes the number of those that ask.         *)
LEMMA AskingChanges ==
  ASSUME CallsTyped, NEW c \in Callers, NEW m \in ModelCall, model' = [model EXCEPT ![c] = m],
         NEW l \in Ledgers
  PROVE  LET n == Cardinality(Asking(l))
             p == Cardinality(Asking(l)')
         IN  /\ n \in Nat /\ p \in Nat
             /\ l # Ledger[c] => p = n
             /\ l = Ledger[c] /\ m.st # "asked" /\ model[c].st # "asked" => p = n
             /\ l = Ledger[c] /\ m.st # "asked" /\ model[c].st = "asked" => p = n - 1
             /\ l = Ledger[c] /\ m.st = "asked" /\ model[c].st # "asked" => p = n + 1
<1> DEFINE others == {d \in Callers \ {c} : Ledger[d] = l /\ model[d].st = "asked"}
<1>1. IsFiniteSet(Callers) /\ model \in [Callers -> ModelCall]
  BY GatewayAssumption, StagesAssumption DEF CallsTyped
<1>2. model'[c] = m /\ \A d \in Callers: d # c => model'[d] = model[d]
  BY <1>1
<1>3. l # Ledger[c] => Asking(l)' = Asking(l)
  BY <1>2 DEF Asking
<1>4. IsFiniteSet(Asking(l)) /\ Cardinality(Asking(l)) \in Nat
  BY <1>1, FS_Subset, FS_CardinalityType DEF Asking
<1>5. IsFiniteSet(others) /\ Cardinality(others) \in Nat /\ c \notin others
  <2>1. others \in SUBSET Callers
    OBVIOUS
  <2>2. IsFiniteSet(others)
    BY <1>1, <2>1, FS_Subset
  <2>3. QED
    BY <2>2, FS_CardinalityType
<1>6. l = Ledger[c] => Asking(l) = IF model[c].st = "asked" THEN others \cup {c} ELSE others
  BY DEF Asking
<1>7. l = Ledger[c] => Asking(l)' = IF m.st = "asked" THEN others \cup {c} ELSE others
  BY <1>2 DEF Asking
<1>8. Cardinality(others \cup {c}) = Cardinality(others) + 1
  BY <1>5, FS_AddElement
<1> HIDE DEF others
<1>9. CASE l # Ledger[c]
  BY <1>3, <1>4, <1>9
<1>10. CASE l = Ledger[c]
  <2>1. /\ Cardinality(Asking(l)) = IF model[c].st = "asked" THEN Cardinality(others) + 1 ELSE Cardinality(others)
        /\ Cardinality(Asking(l)') = IF m.st = "asked" THEN Cardinality(others) + 1 ELSE Cardinality(others)
    BY <1>6, <1>7, <1>8, <1>10
  <2> DEFINE p == Cardinality(Asking(l)')
             o == Cardinality(others)
  <2>2. p = IF m.st = "asked" THEN o + 1 ELSE o
    BY <2>1
  <2>3. Cardinality(Asking(l)) = IF model[c].st = "asked" THEN o + 1 ELSE o
    BY <2>1
  <2>4. o \in Nat
    BY <1>5
  <2> HIDE DEF p, o
  <2>5. QED
    BY <1>10, <2>2, <2>3, <2>4 DEF p
<1>11. QED
  BY <1>9, <1>10

(* A call that is not left asking keeps the calls' type, and the reservations *)
(* of the others.                                                            *)
LEMMA CallReplaced ==
  ASSUME CallsTyped, ReservationsCounted, usage \in [Ledgers -> Usage],
         NEW c \in Callers, NEW m \in ModelCall, m.st # "asked",
         m.st \in {"ready", "backoff"} => m.attempt <= MaxRetries,
         model' = [model EXCEPT ![c] = m]
  PROVE  /\ CallsTyped'
         /\ \A l \in Ledgers: Estimate * Cardinality(Asking(l)') <= usage[l].tokens
<1>1. CallsTyped'
  BY DEF CallsTyped
<1>2. ASSUME NEW l \in Ledgers
      PROVE  Estimate * Cardinality(Asking(l)') <= usage[l].tokens
  <2>1. /\ Cardinality(Asking(l)) \in Nat /\ Estimate \in Nat /\ usage[l].tokens \in Nat
        /\ Estimate * Cardinality(Asking(l)) <= usage[l].tokens
    BY AskingChanges, GatewayAssumption DEF ReservationsCounted, Usage
  <2>2. CASE l # Ledger[c]
    BY <2>1, <2>2, AskingChanges
  <2>3. CASE l = Ledger[c]
    <3> DEFINE n == Cardinality(Asking(l))
    <3>1. Cardinality(Asking(l)') = n \/ Cardinality(Asking(l)') = n - 1
      BY <2>1, <2>3, AskingChanges
    <3>2. n \in Nat /\ Estimate * n <= usage[l].tokens
      BY <2>1
    <3> HIDE DEF n
    <3>3. Estimate * (n - 1) = Estimate * n - Estimate
      BY <2>1, <3>2
    <3>4. Estimate * n \in Nat
      BY <2>1, <3>2
    <3>5. QED
      BY <2>1, <3>1, <3>2, <3>3, <3>4
  <2>4. QED
    BY <2>2, <2>3
<1>3. QED
  BY <1>1, <1>2

(* The calls that a new phase, a pause or an ending leaves.                  *)
LEMMA CallsMade ==
  ASSUME CallsTyped, NEW c \in Callers
  PROVE  /\ Called \in ModelCall /\ Called.st = "ready" /\ Called.attempt = 0
         /\ NoCall \in ModelCall /\ NoCall.st = "idle"
         /\ \A p \in Phase: LET m == [Called EXCEPT !.phase = p] IN
              m \in ModelCall /\ m.st = "ready" /\ m.attempt = 0
         /\ \A result \in {"success", "degraded", "cancelled", "error"}:
              LET m == [model[c] EXCEPT !.st = "done", !.result = result] IN
              /\ m \in ModelCall /\ m.st = "done"
              /\ Ended(c, result) => model' = [model EXCEPT ![c] = m]
<1>1. 0 \in 0..MaxRetries + 1 /\ "first" \in Phase
  BY GatewayAssumption DEF Phase
<1>2. model \in [Callers -> ModelCall]
  BY DEF CallsTyped
<1>3. /\ Called \in ModelCall /\ Called.st = "ready" /\ Called.attempt = 0
      /\ NoCall \in ModelCall /\ NoCall.st = "idle"
      /\ \A p \in Phase: LET m == [Called EXCEPT !.phase = p] IN
              m \in ModelCall /\ m.st = "ready" /\ m.attempt = 0
  BY <1>1 DEF Called, NoCall, ModelCall
<1>4. ASSUME NEW result \in {"success", "degraded", "cancelled", "error"}
      PROVE  LET m == [model[c] EXCEPT !.st = "done", !.result = result] IN
              /\ m \in ModelCall /\ m.st = "done"
              /\ Ended(c, result) => model' = [model EXCEPT ![c] = m]
  BY <1>2 DEF ModelCall, Ended
<1>5. QED
  BY <1>3, <1>4

(* A call that a step of its own leaves neither idle nor asking.             *)
Left(c, m) ==
  /\ m \in ModelCall /\ m.st \in {"ready", "backoff", "done"}
  /\ m.st \in {"ready", "backoff"} => m.attempt <= MaxRetries
  /\ model' = [model EXCEPT ![c] = m]

(* The end of a phase leaves the call over, or at the start of another one.  *)
LEMMA PhaseEnds ==
  ASSUME CallsTyped, NEW c \in Callers,
         \/ \E first: NextPhase(c, first)
         \/ \E result \in {"success", "degraded", "cancelled", "error"}: Ended(c, result)
  PROVE  \E m: Left(c, m)
<1>1. ASSUME NEW result \in {"success", "degraded", "cancelled", "error"}, Ended(c, result)
      PROVE  \E m: Left(c, m)
  <2> DEFINE m == [model[c] EXCEPT !.st = "done", !.result = result]
  <2>1. m \in ModelCall /\ m.st = "done" /\ model' = [model EXCEPT ![c] = m]
    BY <1>1, CallsMade
  <2> HIDE DEF m
  <2>2. QED
    BY <2>1 DEF Left
<1>2. ASSUME NEW p \in Phase, model' = [model EXCEPT ![c] = [Called EXCEPT !.phase = p]]
      PROVE  \E m: Left(c, m)
  <2> DEFINE m == [Called EXCEPT !.phase = p]
  <2>1. m \in ModelCall /\ m.st = "ready" /\ m.attempt = 0
    BY CallsMade
  <2>2. model' = [model EXCEPT ![c] = m]
    BY <1>2
  <2> HIDE DEF m
  <2>3. m.attempt <= MaxRetries
    BY <2>1, GatewayAssumption
  <2>4. Left(c, m)
    BY <2>1, <2>2, <2>3 DEF Left
  <2>5. QED
    BY <2>4
<1>3. "repair" \in Phase /\ "fallback" \in Phase
  BY DEF Phase
<1>4. QED
  BY <1>1, <1>2, <1>3 DEF NextPhase

(* What a step of the gateway does to its call and to its ledger: it asks    *)
(* with a reservation, or leaves the call with or without settling it.       *)
Asks(c) ==
  /\ ModelFits(Ledger[c], Estimate) /\ ReserveModel(Ledger[c], Estimate)
  /\ model[c].st = "ready"
  /\ model' = [model EXCEPT ![c].st = "asked", ![c].attempt = @ + 1]

Settles(c) ==
  /\ model[c].st = "asked"
  /\ \E actual \in Actual: /\ AnswerFits(Ledger[c], Estimate, actual)
                           /\ SettleModel(Ledger[c], Estimate, actual)
  /\ \E m: Left(c, m)

LEMMA GatewayMoves ==
  ASSUME CallsTyped, NEW c \in Callers, GatewayStep(c) \/ TaskCancelled(c)
  PROVE  /\ model[c].st \in {"ready", "asked", "backoff"}
         /\ Asks(c) \/ Settles(c) \/ (UNCHANGED usage /\ \E m: Left(c, m))
<1>1. CASE Misconfigured(c) \/ TaskCancelled(c)
  <2>1. Ended(c, "error") \/ Ended(c, "cancelled")
    BY <1>1 DEF Misconfigured, TaskCancelled
  <2>2. QED
    BY <1>1, <2>1, PhaseEnds DEF Misconfigured, TaskCancelled, budgetVars
<1>2. CASE Send(c)
  <2>1. CASE Ledger[c] \notin stopped /\ ModelFits(Ledger[c], Estimate)
    BY <1>2, <2>1 DEF Send, Asks
  <2>2. CASE ~(Ledger[c] \notin stopped /\ ModelFits(Ledger[c], Estimate))
    BY <1>2, <2>2, PhaseEnds DEF Send
  <2>3. QED
    BY <2>1, <2>2
<1>3. CASE Answer(c)
  <2>1. PICK actual \in Actual, valid \in BOOLEAN, lacking \in BOOLEAN:
          IF ~AnswerFits(Ledger[c], Estimate, actual)
          THEN NextPhase(c, "error") /\ UNCHANGED usage
          ELSE /\ SettleModel(Ledger[c], Estimate, actual)
               /\ IF valid THEN Completed(c, lacking) ELSE NextPhase(c, "invalid")
    BY <1>3 DEF Answer
  <2>2. Completed(c, lacking) => Ended(c, "degraded") \/ Ended(c, "success")
    BY DEF Completed
  <2>3. \E m: Left(c, m)
    BY <2>1, <2>2, PhaseEnds
  <2>4. QED
    BY <1>3, <2>1, <2>3 DEF Answer, Settles
<1>4. CASE ProviderFails(c)
  <2>1. CASE model' = [model EXCEPT ![c].st = "backoff"] /\ model[c].attempt < MaxRetries + 1
    <3> DEFINE m == [model[c] EXCEPT !.st = "backoff"]
    <3>1. m \in ModelCall /\ m.st = "backoff" /\ m.attempt = model[c].attempt
          /\ model' = [model EXCEPT ![c] = m] /\ model[c].attempt \in 0..MaxRetries + 1
      BY <2>1 DEF ModelCall, CallsTyped
    <3> HIDE DEF m
    <3>2. m.attempt <= MaxRetries
      BY <2>1, <3>1, GatewayAssumption
    <3>3. Left(c, m)
      BY <3>1, <3>2 DEF Left
    <3>4. QED
      BY <1>4, <3>3 DEF ProviderFails, budgetVars
  <2>2. CASE NextPhase(c, "error")
    BY <1>4, <2>2, PhaseEnds DEF ProviderFails, budgetVars
  <2>3. QED
    BY <1>4, <2>1, <2>2 DEF ProviderFails
<1>5. CASE WakesUp(c)
  <2> DEFINE m == [model[c] EXCEPT !.st = "ready"]
  <2>1. m \in ModelCall /\ m.st = "ready" /\ m.attempt <= MaxRetries /\ model' = [model EXCEPT ![c] = m]
    BY <1>5 DEF ModelCall, WakesUp, CallsTyped
  <2> HIDE DEF m
  <2>2. Left(c, m)
    BY <2>1 DEF Left
  <2>3. QED
    BY <1>5, <2>2 DEF WakesUp, budgetVars
<1>6. QED
  BY <1>1, <1>2, <1>3, <1>4, <1>5 DEF GatewayStep

-----------------------------------------------------------------------------
(* One count of a ledger changes, and the others stay.                       *)
LEMMA CountType ==
  ASSUME NEW x \in Usage, NEW n \in Nat
  PROVE  /\ [x EXCEPT !.model = n] \in Usage /\ [x EXCEPT !.model = n].model = n
         /\ [x EXCEPT !.model = n].tool = x.tool /\ [x EXCEPT !.model = n].tokens = x.tokens
         /\ [x EXCEPT !.tokens = n] \in Usage /\ [x EXCEPT !.tokens = n].tokens = n
         /\ [x EXCEPT !.tokens = n].tool = x.tool /\ [x EXCEPT !.tokens = n].model = x.model
         /\ [x EXCEPT !.tool = n] \in Usage /\ [x EXCEPT !.tool = n].tool = n
         /\ [x EXCEPT !.tool = n].model = x.model /\ [x EXCEPT !.tool = n].tokens = x.tokens
  BY DEF Usage

(* A ledger that gets counts within the limits keeps the limits.             *)
LEMMA CountedWithin ==
  ASSUME usage \in [Ledgers -> Usage], LimitsHold, NEW l \in Ledgers, NEW u \in Usage, Within(u),
         usage' = [usage EXCEPT ![l] = u]
  PROVE  /\ usage' \in [Ledgers -> Usage] /\ LimitsHold'
         /\ usage'[l] = u /\ \A k \in Ledgers: k # l => usage'[k] = usage[k]
<1>1. usage' \in [Ledgers -> Usage]
  OBVIOUS
<1>2. usage'[l] = u /\ \A k \in Ledgers: k # l => usage'[k] = usage[k]
  OBVIOUS
<1>3. QED
  BY <1>1, <1>2 DEF LimitsHold, Within

(* A reservation of a model call that fits is counted within the limits.     *)
LEMMA AskKeeps ==
  ASSUME LedgerSound, NEW c \in Callers, Asks(c)
  PROVE  /\ usage' \in [Ledgers -> Usage] /\ LimitsHold' /\ CallsTyped' /\ ReservationsCounted'
         /\ LET u == usage'[Ledger[c]]
                v == usage[Ledger[c]]
            IN  u.model = v.model + 1 /\ u.tool = v.tool /\ u.tokens = v.tokens + Estimate
         /\ \A k \in Ledgers: k # Ledger[c] => usage'[k] = usage[k]
<1> DEFINE l == Ledger[c]
           x == [usage[l] EXCEPT !.model = usage[l].model + 1]
           u == [x EXCEPT !.tokens = usage[l].tokens + Estimate]
           m == [model[c] EXCEPT !.st = "asked", !.attempt = model[c].attempt + 1]
<1>1. /\ l \in Ledgers /\ usage \in [Ledgers -> Usage] /\ usage[l] \in Usage /\ Within(usage[l])
      /\ LimitsHold /\ CallsTyped /\ ReservationsCounted /\ Estimate \in Nat
  BY GatewayAssumption DEF LedgerSound, LimitsHold
<1>2. usage' = [usage EXCEPT ![l] = u]
  BY <1>1 DEF Asks, ReserveModel, Usage
<1>3. usage[l].model + 1 \in Nat /\ usage[l].tokens + Estimate \in Nat /\ usage[l].tokens \in Nat
  BY <1>1 DEF Usage
<1>4. /\ u \in Usage /\ u.model = usage[l].model + 1 /\ u.tool = usage[l].tool
      /\ u.tokens = usage[l].tokens + Estimate
  <2>1. x \in Usage /\ x.model = usage[l].model + 1 /\ x.tool = usage[l].tool
    BY <1>1, <1>3, CountType
  <2> HIDE DEF x
  <2>2. QED
    BY <1>3, <2>1, CountType
<1>5. m \in ModelCall /\ m.st = "asked" /\ model' = [model EXCEPT ![c] = m] /\ model[c].st = "ready"
  <2>1. model[c] \in ModelCall /\ model[c].st = "ready" /\ model[c].attempt <= MaxRetries
    BY <1>1 DEF Asks, CallsTyped
  <2>2. model[c].attempt + 1 \in 0..MaxRetries + 1
    BY <2>1, GatewayAssumption DEF ModelCall
  <2>3. QED
    BY <1>1, <2>1, <2>2 DEF Asks, ModelCall, CallsTyped
<1> HIDE DEF u, m
<1>6. Within(u)
  BY <1>1, <1>4 DEF Within, Asks, ModelFits
<1>7. /\ usage' \in [Ledgers -> Usage] /\ LimitsHold'
      /\ usage'[l] = u /\ \A k \in Ledgers: k # l => usage'[k] = usage[k]
  BY <1>1, <1>2, <1>4, <1>6, CountedWithin
<1>8. CallsTyped'
  BY <1>1, <1>5 DEF CallsTyped
<1>9. ASSUME NEW k \in Ledgers
      PROVE  Estimate * Cardinality(Asking(k)') <= usage'[k].tokens
  <2> DEFINE n == Cardinality(Asking(k))
  <2>1. n \in Nat /\ Estimate * n <= usage[k].tokens
    BY <1>1, <1>5, AskingChanges DEF ReservationsCounted
  <2>2. CASE k # l
    BY <1>1, <1>5, <1>7, <2>1, <2>2, AskingChanges
  <2>3. CASE k = l
    <3>1. Cardinality(Asking(k)') = n + 1
      BY <1>1, <1>5, <2>1, <2>3, AskingChanges
    <3>2. Estimate * n <= usage[l].tokens /\ usage'[k].tokens = usage[l].tokens + Estimate
      BY <1>4, <1>7, <2>1, <2>3
    <3> HIDE DEF n
    <3>3. Estimate * (n + 1) = Estimate * n + Estimate /\ Estimate * n \in Nat
      BY <1>1, <2>1
    <3>4. QED
      BY <1>1, <1>3, <3>1, <3>2, <3>3
  <2>4. QED
    BY <2>2, <2>3
<1>10. QED
  BY <1>4, <1>7, <1>8, <1>9 DEF ReservationsCounted

(* An answer that fits replaces its reservation, which was counted.          *)
LEMMA SettleKeeps ==
  ASSUME LedgerSound, NEW c \in Callers, Settles(c)
  PROVE  /\ usage' \in [Ledgers -> Usage] /\ LimitsHold' /\ CallsTyped' /\ ReservationsCounted'
         /\ LET u == usage'[Ledger[c]]
                v == usage[Ledger[c]]
            IN  u.model = v.model /\ u.tool = v.tool
         /\ \A k \in Ledgers: k # Ledger[c] => usage'[k] = usage[k]
<1> DEFINE l == Ledger[c]
<1>1. /\ l \in Ledgers /\ usage \in [Ledgers -> Usage] /\ usage[l] \in Usage /\ Within(usage[l])
      /\ LimitsHold /\ CallsTyped /\ ReservationsCounted /\ Estimate \in Nat /\ Actual \subseteq Nat
  BY GatewayAssumption DEF LedgerSound, LimitsHold
<1>2. PICK actual \in Actual: /\ AnswerFits(l, Estimate, actual)
                              /\ SettleModel(l, Estimate, actual)
  BY DEF Settles
<1>3. PICK m: Left(c, m)
  BY DEF Settles
<1>4. m \in ModelCall /\ m.st # "asked" /\ model' = [model EXCEPT ![c] = m] /\ model[c].st = "asked"
      /\ (m.st \in {"ready", "backoff"} => m.attempt <= MaxRetries)
  BY <1>3 DEF Left, Settles
<1> DEFINE t == usage[l].tokens
           q == Cardinality(Asking(l))
           n == t - Estimate + actual
           u == [usage[l] EXCEPT !.tokens = n]
<1>5. q \in Nat /\ t \in Nat /\ actual \in Nat /\ Estimate * q <= t
      /\ Cardinality(Asking(l)') = q - 1 /\ Cardinality(Asking(l)') \in Nat
  <2>1. q \in Nat /\ Cardinality(Asking(l)') = q - 1
    BY <1>1, <1>4, AskingChanges
  <2>2. Asking(l)' \in SUBSET Callers
    BY DEF Asking
  <2>3. Cardinality(Asking(l)') \in Nat
    BY <2>2, FS_Subset, FS_CardinalityType, StagesAssumption
  <2>4. QED
    BY <1>1, <2>1, <2>3 DEF ReservationsCounted, Usage
<1>6. usage' = [usage EXCEPT ![l] = u]
  BY <1>1, <1>2 DEF SettleModel, Usage
<1>7. n <= MaxTokens
  BY <1>2 DEF AnswerFits
<1> HIDE DEF q
<1>8. Estimate * (q - 1) = Estimate * q - Estimate /\ Estimate * q \in Nat
      /\ Estimate * (q - 1) >= 0
  <2>1. q - 1 \in Nat
    BY <1>5
  <2>2. Estimate * (q - 1) \in Nat
    BY <1>1, <2>1
  <2>3. Estimate * (q - 1) = Estimate * q - Estimate
    BY <1>1, <1>5
  <2>4. Estimate * q \in Nat
    BY <1>1, <1>5
  <2>5. QED
    BY <2>2, <2>3, <2>4
<1>9. n \in Nat /\ Estimate * (q - 1) <= n
  BY <1>1, <1>5, <1>8
<1> HIDE DEF n
<1>10. u \in Usage /\ u.model = usage[l].model /\ u.tool = usage[l].tool /\ u.tokens = n
  BY <1>1, <1>9, CountType
<1> HIDE DEF u
<1>11. Within(u)
  BY <1>1, <1>7, <1>10 DEF Within
<1>12. /\ usage' \in [Ledgers -> Usage] /\ LimitsHold'
       /\ usage'[l] = u /\ \A k \in Ledgers: k # l => usage'[k] = usage[k]
  BY <1>1, <1>6, <1>10, <1>11, CountedWithin
<1>13. CallsTyped'
  BY <1>1, <1>4, CallReplaced
<1>14. ASSUME NEW k \in Ledgers
       PROVE  Estimate * Cardinality(Asking(k)') <= usage'[k].tokens
  <2>1. CASE k # l
    BY <1>1, <1>4, <1>12, <2>1, AskingChanges DEF ReservationsCounted
  <2>2. CASE k = l
    BY <1>5, <1>9, <1>10, <1>12, <2>2
  <2>3. QED
    BY <2>1, <2>2
<1>15. QED
  BY <1>10, <1>12, <1>13, <1>14 DEF ReservationsCounted

(* A tool call counts one, if it fits.                                       *)
LEMMA ToolKeeps ==
  ASSUME LedgerSound, NEW s \in Callers, ToolFits(Ledger[s]), ReserveTool(Ledger[s])
  PROVE  /\ usage' \in [Ledgers -> Usage] /\ LimitsHold'
         /\ LET u == usage'[Ledger[s]]
                v == usage[Ledger[s]]
            IN  u.model = v.model /\ u.tool = v.tool + 1 /\ u.tokens = v.tokens
         /\ \A k \in Ledgers: k # Ledger[s] => usage'[k] = usage[k]
<1> DEFINE l == Ledger[s]
           n == usage[l].tool + 1
           u == [usage[l] EXCEPT !.tool = n]
<1>1. /\ l \in Ledgers /\ usage \in [Ledgers -> Usage] /\ LimitsHold
      /\ usage[l] \in Usage /\ Within(usage[l])
  BY GatewayAssumption DEF LedgerSound, LimitsHold
<1>2. usage' = [usage EXCEPT ![l] = u] /\ n \in Nat
  BY <1>1 DEF ReserveTool, Usage
<1>3. n <= MaxToolCalls
  BY DEF ToolFits
<1>4. u \in Usage /\ u.model = usage[l].model /\ u.tool = n /\ u.tokens = usage[l].tokens
  BY <1>1, <1>2, CountType
<1>5. n = usage[l].tool + 1
  OBVIOUS
<1> HIDE DEF n, u
<1>6. Within(u)
  BY <1>1, <1>3, <1>4 DEF Within
<1>7. QED
  BY <1>1, <1>2, <1>4, <1>5, <1>6, CountedWithin

(* A call of the gateway keeps the ledgers sound.                            *)
LEMMA CallKeeps ==
  ASSUME LedgerSound, NEW c \in Callers, GatewayStep(c) \/ TaskCancelled(c),
         UNCHANGED <<spent, joined>>
  PROVE  LedgerSound'
<1>1. CASE Asks(c)
  BY <1>1, AskKeeps DEF LedgerSound
<1>2. CASE Settles(c)
  BY <1>2, SettleKeeps DEF LedgerSound
<1>3. CASE UNCHANGED usage /\ \E m: Left(c, m)
  <2>1. PICK m: Left(c, m)
    BY <1>3
  <2>2. CallsTyped' /\ \A l \in Ledgers: Estimate * Cardinality(Asking(l)') <= usage[l].tokens
    BY <2>1, CallReplaced DEF Left, LedgerSound
  <2>3. ReservationsCounted'
    BY <1>3, <2>2 DEF ReservationsCounted
  <2>4. QED
    BY <1>3, <2>2, <2>3 DEF LedgerSound, LimitsHold, Within
<1>4. QED
  BY <1>1, <1>2, <1>3, GatewayMoves DEF LedgerSound

(* The other steps that touch a call begin it or throw it away; they may     *)
(* count a tool call.                                                        *)
LEMMA CallBegins ==
  ASSUME LedgerSound, NEW s \in Callers, UNCHANGED <<spent, joined>>,
         UNCHANGED usage \/ (ToolFits(Ledger[s]) /\ ReserveTool(Ledger[s])),
         \/ UNCHANGED model
         \/ model' = [model EXCEPT ![s] = Called]
         \/ model' = [model EXCEPT ![s] = NoCall]
  PROVE  LedgerSound'
<1>1. CallsTyped /\ ReservationsCounted /\ usage \in [Ledgers -> Usage] /\ LimitsHold
  BY DEF LedgerSound
<1>2. usage' \in [Ledgers -> Usage] /\ LimitsHold' /\ \A l \in Ledgers: usage'[l].tokens = usage[l].tokens
  <2>1. CASE UNCHANGED usage
    BY <1>1, <2>1 DEF LimitsHold, Within
  <2>2. CASE ToolFits(Ledger[s]) /\ ReserveTool(Ledger[s])
    BY <2>2, ToolKeeps
  <2>3. QED
    BY <2>1, <2>2
<1>3. CASE UNCHANGED model
  BY <1>1, <1>2, <1>3 DEF LedgerSound, CallsTyped, ReservationsCounted, Asking
<1>4. ASSUME NEW m \in ModelCall, m.st # "asked", m.st \in {"ready", "backoff"} => m.attempt <= MaxRetries,
             model' = [model EXCEPT ![s] = m]
      PROVE  LedgerSound'
  <2>1. CallsTyped' /\ \A l \in Ledgers: Estimate * Cardinality(Asking(l)') <= usage[l].tokens
    BY <1>1, <1>4, CallReplaced
  <2>2. QED
    BY <1>2, <2>1 DEF LedgerSound, ReservationsCounted
<1>5. /\ Called \in ModelCall /\ Called.st = "ready" /\ Called.attempt = 0
      /\ NoCall \in ModelCall /\ NoCall.st = "idle"
  BY <1>1, CallsMade
<1>6. Called.attempt <= MaxRetries
  BY <1>5, GatewayAssumption
<1>7. QED
  BY <1>3, <1>4, <1>5, <1>6

(* Every step keeps the ledgers sound.                                       *)
LEMMA LedgerStep ==
  ASSUME LedgerSound, [Next]_vars
  PROVE  LedgerSound'
<1>1. /\ CallsTyped /\ ReservationsCounted /\ usage \in [Ledgers -> Usage] /\ LimitsHold
      /\ (~joined => spent = NoUsage)
  BY DEF LedgerSound
<1>2. ASSUME UNCHANGED <<usage, model>>, UNCHANGED <<joined, spent>> \/ joined'
      PROVE  LedgerSound'
  BY <1>1, <1>2 DEF LedgerSound, CallsTyped, ReservationsCounted, Asking, LimitsHold, Within
<1>3. ASSUME NEW s \in Callers, Enter(s) \/ WriteEvidence(s) \/ WriteRelation(s)
                                \/ Conclude(s) \/ StoreFails(s)
      PROVE  LedgerSound'
  <2>1. UNCHANGED <<usage, model, spent, joined>>
    BY <1>3 DEF Enter, WriteEvidence, WriteRelation, Conclude, StoreFails, callVars, gatewayVars,
                budgetVars, rowVars
  <2>2. QED
    BY <1>2, <2>1
<1>4. ASSUME NEW s \in Callers, Profile(s)
      PROVE  LedgerSound'
  <2>1. /\ UNCHANGED <<spent, joined>>
        /\ UNCHANGED usage \/ (ToolFits(Ledger[s]) /\ ReserveTool(Ledger[s]))
        /\ UNCHANGED model \/ model' = [model EXCEPT ![s] = Called]
    BY <1>4 DEF Profile, Gathered, rowVars
  <2>2. QED
    BY <2>1, CallBegins
<1>5. ASSUME NEW s \in Callers, Reasoned(s)
      PROVE  LedgerSound'
  <2>1. UNCHANGED <<usage, spent, joined>> /\ model' = [model EXCEPT ![s] = NoCall]
    BY <1>5 DEF Reasoned, budgetVars, rowVars
  <2>2. QED
    BY <2>1, CallBegins
<1>6. ASSUME NEW s \in Callers, TimeUp(s)
      PROVE  LedgerSound'
  <2>1. CASE TaskCancelled(s)
    BY <1>6, <2>1, CallKeeps DEF TimeUp, rowVars
  <2>2. CASE ~TaskCancelled(s)
    <3>1. /\ UNCHANGED <<spent, joined>>
          /\ UNCHANGED usage \/ (ToolFits(Ledger[s]) /\ ReserveTool(Ledger[s]))
          /\ UNCHANGED model \/ model' = [model EXCEPT ![s] = Called]
      BY <1>6, <2>2 DEF TimeUp, rowVars, callVars, gatewayVars, budgetVars
    <3>2. QED
      BY <3>1, CallBegins
  <2>3. QED
    BY <2>1, <2>2
<1>7. ASSUME NEW s \in Callers, CallStep(s)
      PROVE  LedgerSound'
  BY <1>7, CallKeeps DEF CallStep
<1>8. CASE Cancel \/ Deadline \/ Join \/ UNCHANGED vars
  <2>1. UNCHANGED <<usage, model>> /\ (UNCHANGED <<joined, spent>> \/ joined')
    BY <1>8 DEF Cancel, Deadline, DeadlinePasses, Join, vars, callVars, gatewayVars, budgetVars, rowVars
  <2>2. QED
    BY <1>2, <2>1
<1>9. CASE Restart
  <2>1. /\ usage' = [l \in Ledgers |-> NoUsage] /\ UNCHANGED <<spent, joined>>
        /\ model' = [s \in Callers |-> NoCall]
    BY <1>1, <1>9 DEF Restart
  <2>2. NoUsage \in Usage /\ Within(NoUsage) /\ NoUsage.tokens = 0
    BY LimitsAssumption DEF NoUsage, Usage, Within
  <2>3. usage' \in [Ledgers -> Usage] /\ \A l \in Ledgers: usage'[l] = NoUsage
    BY <2>1, <2>2
  <2>4. NoCall \in ModelCall /\ NoCall.st = "idle"
    BY GatewayAssumption DEF NoCall, ModelCall, Phase
  <2>5. CallsTyped'
    BY <2>1, <2>4 DEF CallsTyped
  <2>6. ASSUME NEW l \in Ledgers
        PROVE  Estimate * Cardinality(Asking(l)') <= usage'[l].tokens
    <3>1. Asking(l)' = {}
      BY <2>1, <2>4 DEF Asking
    <3>2. Cardinality(Asking(l)') = 0
      BY <3>1, FS_EmptySet
    <3>3. Estimate * 0 = 0
      BY GatewayAssumption
    <3>4. QED
      BY <2>2, <2>3, <3>2, <3>3
  <2>7. LimitsHold'
    BY <2>2, <2>3 DEF LimitsHold, Within
  <2>8. QED
    BY <1>1, <2>1, <2>3, <2>5, <2>6, <2>7 DEF LedgerSound, ReservationsCounted
<1>10. QED
  BY <1>3, <1>4, <1>5, <1>6, <1>7, <1>8, <1>9 DEF Next, StageStep

(* The first ledger is empty, and nobody asks. *)
LEMMA LedgerStarts == Init => LedgerSound
<1> SUFFICES ASSUME Init PROVE LedgerSound
  OBVIOUS
<1>1. NoCall \in ModelCall /\ NoCall.st = "idle" /\ NoUsage \in Usage /\ Within(NoUsage) /\ NoUsage.tokens = 0
  BY LimitsAssumption, GatewayAssumption DEF NoCall, ModelCall, Phase, NoUsage, Usage, Within
<1>2. model = [c \in Callers |-> NoCall] /\ usage = [l \in Ledgers |-> NoUsage] /\ spent = NoUsage
  BY DEF Init, GatewayInit, BudgetInit
<1>3. ReservationsCounted
  <2> SUFFICES ASSUME NEW l \in Ledgers PROVE Estimate * Cardinality(Asking(l)) <= usage[l].tokens
    BY DEF ReservationsCounted
  <2>1. Asking(l) = {}
    BY <1>1, <1>2 DEF Asking
  <2>2. Cardinality(Asking(l)) = 0
    BY <2>1, FS_EmptySet
  <2>3. Estimate * 0 = 0
    BY GatewayAssumption
  <2>4. QED
    BY <1>1, <1>2, <2>2, <2>3
<1>4. QED
  BY <1>1, <1>2, <1>3 DEF LedgerSound, CallsTyped, LimitsHold, Within

(* No ledger ever counts more than its limits, for any number of stages that *)
(* share it (budget.py, reserve_model, settle_model, reserve_tool).          *)
THEOREM LimitsAlwaysHold == Spec => []LimitsHold
<1>1. LedgerSound => LimitsHold
  BY DEF LedgerSound
<1>2. QED
  BY <1>1, LedgerStarts, LedgerStep, PTL DEF Spec

-----------------------------------------------------------------------------
(* A stage is at work: its use of the budget counts from here on.            *)
Active(x) == x.at \in {"collect", "reason", "write"}

(* What an attempt has noted of its use and of its end does not change.      *)
SameBooks(x, y) ==
  y.before = x.before /\ y.sum = x.sum /\ y.uncounted = x.uncounted /\ y.status = x.status

(* An attempt is in its domain, has a status once it is over, and a call of  *)
(* the model while it reasons.                                               *)
AttemptsTyped ==
  /\ stage \in [Callers -> Attempt]
  /\ \A s \in Callers: /\ (stage[s].at = "done") = (stage[s].status # "none")
                       /\ (stage[s].at = "reason") = (model[s].st # "idle")

(* The three things a step may do to the attempt of its stage: go on with    *)
(* it, begin it, or end it, with the use it tells.                           *)
GoesOn(s) == Active(stage[s]) /\ Active(stage'[s]) /\ SameBooks(stage[s], stage'[s])

Begins(s) ==
  /\ stage[s].at = "due" /\ stage'[s].at = "collect" /\ stage'[s].before = usage[Ledger[s]]
  /\ SameBooks([stage[s] EXCEPT !.before = usage[Ledger[s]]], stage'[s])
  /\ UNCHANGED <<usage, model>>

Ends(s, used, lost) ==
  /\ stage'[s].at \in {"due", "done"}
  /\ stage'[s].sum = Added(stage[s].sum, used)
  /\ stage'[s].uncounted = (stage[s].uncounted \/ lost)

Tells(s) ==
  \/ Ends(s, NoUsage, TRUE)
  \/ Active(stage[s]) /\ Ends(s, Delta(s), FALSE)
  \/ ~Active(stage[s]) /\ UNCHANGED <<usage, model>> /\ Ends(s, NoUsage, FALSE)

Moves(s) ==
  /\ stage' \in [Callers -> Attempt] /\ \A t \in Callers \ {s}: stage'[t] = stage[t]
  /\ stage[s].at # "done"
  /\ (stage'[s].at = "done") = (stage'[s].status # "none")
  /\ GoesOn(s) \/ Begins(s) \/ Tells(s)

-----------------------------------------------------------------------------
(* An attempt that ends leaves nothing to write, and the others alone.       *)
LEMMA OverType ==
  ASSUME stage \in [Callers -> Attempt], NEW s \in Callers, NEW status \in Outcomes,
         NEW used \in Usage, NEW lost \in BOOLEAN, Over(s, status, used, lost)
  PROVE  /\ stage' \in [Callers -> Attempt] /\ \A t \in Callers \ {s}: stage'[t] = stage[t]
         /\ (stage'[s].at = "done") = (stage'[s].status # "none")
         /\ Ends(s, used, lost)
<1>1. stage[s] \in Attempt
  OBVIOUS
<1>2. Added(stage[s].sum, used) \in Usage
  BY <1>1 DEF Added, Attempt, Usage
<1>3. FirstAttempt \in Attempt /\ FirstAttempt.at = "due" /\ FirstAttempt.status = "none"
  BY StagesAssumption DEF FirstAttempt, Attempt, Usage, NoUsage
<1> DEFINE u == Added(stage[s].sum, used)
           b == stage[s].uncounted \/ lost
           next == [FirstAttempt EXCEPT !.sum = u, !.uncounted = b]
           again == [next EXCEPT !.attempt = stage[s].attempt + 1]
           ended == [next EXCEPT !.attempt = stage[s].attempt, !.at = "done", !.status = status]
<1>4. stage' = [stage EXCEPT ![s] = IF status = "failed" /\ stage[s].attempt < MaxAttempts
                                     THEN again ELSE ended]
  BY DEF Over
<1>5. u \in Usage /\ b \in BOOLEAN
  BY <1>1, <1>2 DEF Attempt
<1>6. u = Added(stage[s].sum, used) /\ b = (stage[s].uncounted \/ lost)
  OBVIOUS
<1> HIDE DEF u, b
<1>7. next \in Attempt /\ next.at = "due" /\ next.status = "none" /\ next.sum = u /\ next.uncounted = b
  BY <1>3, <1>5 DEF Attempt
<1> HIDE DEF next
<1>8. stage[s].attempt < MaxAttempts =>
        again \in Attempt /\ again.at = "due" /\ again.status = "none" /\ again.sum = u /\ again.uncounted = b
  <2>1. stage[s].attempt < MaxAttempts => stage[s].attempt + 1 \in 1..MaxAttempts
    BY <1>1, StagesAssumption DEF Attempt
  <2>2. \A n \in 1..MaxAttempts: LET y == [next EXCEPT !.attempt = n] IN
          y \in Attempt /\ y.at = "due" /\ y.status = "none" /\ y.sum = u /\ y.uncounted = b
    BY <1>7 DEF Attempt
  <2>3. QED
    BY <2>1, <2>2
<1>9. /\ ended \in Attempt /\ ended.at = "done" /\ ended.status # "none"
      /\ ended.sum = u /\ ended.uncounted = b
  BY <1>1, <1>7 DEF Attempt, Outcomes
<1> HIDE DEF again, ended
<1>10. stage' \in [Callers -> Attempt] /\ \A t \in Callers \ {s}: stage'[t] = stage[t]
  BY <1>4, <1>8, <1>9
<1>11. (stage'[s] = again /\ stage[s].attempt < MaxAttempts) \/ stage'[s] = ended
  BY <1>4
<1>12. QED
  BY <1>6, <1>8, <1>9, <1>10, <1>11 DEF Ends

(* The difference of two readings is a count.                                *)
LEMMA DeltaType ==
  ASSUME stage \in [Callers -> Attempt], usage' \in [Ledgers -> Usage], NEW s \in Callers
  PROVE  Delta(s) \in Usage
<1>1. usage'[Ledger[s]] \in Usage /\ stage[s].before \in Usage
  BY GatewayAssumption DEF Attempt
<1>2. \A d \in Dimensions: usage'[Ledger[s]][d] \in Nat /\ stage[s].before[d] \in Nat
  BY <1>1 DEF Usage, Dimensions
<1>3. \A d \in Dimensions: Delta(s)[d] \in Nat
  BY <1>2 DEF Delta
<1>4. Delta(s) = [d \in Dimensions |-> Delta(s)[d]]
  BY DEF Delta
<1>5. QED
  BY <1>3, <1>4 DEF Usage, Dimensions

(* An attempt at work that returns tells its use. *)
LEMMA ReturnedMoves ==
  ASSUME AttemptsTyped, usage' \in [Ledgers -> Usage], NEW s \in Callers, Active(stage[s]),
         NEW status \in Outcomes, Returned(s, status)
  PROVE  Moves(s) /\ stage'[s].at \in {"due", "done"}
<1>1. Delta(s) \in Usage /\ Over(s, status, Delta(s), FALSE) /\ stage \in [Callers -> Attempt]
  BY DeltaType DEF Returned, AttemptsTyped
<1>2. QED
  BY <1>1, OverType DEF Moves, Tells, Ends, Active

(* One that is given up, or raises, tells nothing. *)
LEMMA LostMoves ==
  ASSUME AttemptsTyped, NEW s \in Callers, Active(stage[s]),
         NEW status \in Outcomes, Over(s, status, NoUsage, TRUE)
  PROVE  Moves(s) /\ stage'[s].at \in {"due", "done"}
<1>1. NoUsage \in Usage /\ stage \in [Callers -> Attempt]
  BY DEF NoUsage, Usage, AttemptsTyped
<1>2. QED
  BY <1>1, OverType DEF Moves, Tells, Ends, Active

(* One field of an attempt changes, and the others stay.                     *)
LEMMA FieldType ==
  ASSUME NEW x \in Attempt
  PROVE  /\ \A a \in {"due", "collect", "reason", "write", "done"}:
              LET y == [x EXCEPT !.at = a] IN
              y \in Attempt /\ y.at = a /\ SameBooks(x, y) /\ y.items = x.items /\ y.accepted = x.accepted
         /\ \A b \in BOOLEAN:
              LET y == [x EXCEPT !.missing = b] IN y \in Attempt /\ y.at = x.at /\ SameBooks(x, y)
         /\ \A b \in BOOLEAN:
              LET y == [x EXCEPT !.degraded = b] IN y \in Attempt /\ y.at = x.at /\ SameBooks(x, y)
         /\ \A b \in BOOLEAN:
              LET y == [x EXCEPT !.timed = b] IN y \in Attempt /\ y.at = x.at /\ SameBooks(x, y)
<1>1. \A a \in {"due", "collect", "reason", "write", "done"}: LET y == [x EXCEPT !.at = a] IN
        y \in Attempt /\ y.at = a /\ SameBooks(x, y) /\ y.items = x.items /\ y.accepted = x.accepted
  BY DEF Attempt, SameBooks
<1>2. \A b \in BOOLEAN:
        LET y == [x EXCEPT !.missing = b] IN y \in Attempt /\ y.at = x.at /\ SameBooks(x, y)
  BY DEF Attempt, SameBooks
<1>3. \A b \in BOOLEAN:
        LET y == [x EXCEPT !.degraded = b] IN y \in Attempt /\ y.at = x.at /\ SameBooks(x, y)
  BY DEF Attempt, SameBooks
<1>4. \A b \in BOOLEAN:
        LET y == [x EXCEPT !.timed = b] IN y \in Attempt /\ y.at = x.at /\ SameBooks(x, y)
  BY DEF Attempt, SameBooks
<1>5. QED
  BY <1>1, <1>2, <1>3, <1>4

(* What is left to write changes, and nothing else.                          *)
LEMMA ItemsType ==
  ASSUME NEW x \in Attempt, NEW i \in SUBSET EvidenceRow
  PROVE  /\ [x EXCEPT !.items = i] \in Attempt /\ [x EXCEPT !.items = i].at = x.at
         /\ SameBooks(x, [x EXCEPT !.items = i])
         /\ [x EXCEPT !.items = i].items = i /\ [x EXCEPT !.items = i].accepted = x.accepted
  BY DEF Attempt, SameBooks

(* What is left to relate changes, and nothing else. *)
LEMMA AcceptedType ==
  ASSUME NEW x \in Attempt, NEW i \in SUBSET EvidenceId
  PROVE  /\ [x EXCEPT !.accepted = i] \in Attempt /\ [x EXCEPT !.accepted = i].at = x.at
         /\ SameBooks(x, [x EXCEPT !.accepted = i])
         /\ [x EXCEPT !.accepted = i].items = x.items /\ [x EXCEPT !.accepted = i].accepted = i
  BY DEF Attempt, SameBooks

(* An attempt that only changes elsewhere goes on. *)
LEMMA ReplacedMoves ==
  ASSUME AttemptsTyped, NEW s \in Callers, NEW y \in Attempt, stage' = [stage EXCEPT ![s] = y],
         Active(stage[s]), Active(y), SameBooks(stage[s], y)
  PROVE  Moves(s) /\ stage'[s] = y
<1>1. stage \in [Callers -> Attempt] /\ (stage[s].at = "done") = (stage[s].status # "none")
  BY DEF AttemptsTyped
<1>2. stage' \in [Callers -> Attempt] /\ stage'[s] = y /\ \A t \in Callers \ {s}: stage'[t] = stage[t]
  BY <1>1
<1>3. stage[s].at # "done" /\ y.at # "done" /\ y.status = stage[s].status
  BY DEF Active, SameBooks
<1>4. QED
  BY <1>1, <1>2, <1>3 DEF Moves, GoesOn

(* What the verifier accepts has evidence among its items, not against it.   *)
LEMMA VerifiedType ==
  ASSUME stage \in [Callers -> Attempt], NEW s \in Callers, NEW degraded \in BOOLEAN,
         NEW proposal \in SUBSET Candidates
  PROVE  /\ Verified(s, proposal, degraded) \in Attempt
         /\ Verified(s, proposal, degraded).at = "write"
         /\ SameBooks(stage[s], Verified(s, proposal, degraded))
         /\ \A id \in Verified(s, proposal, degraded).accepted:
              /\ id.claim \notin Wrong
              /\ [id |-> id, rejected |-> FALSE] \in Verified(s, proposal, degraded).items
<1> DEFINE items == IF s \in Observing THEN {} ELSE Items(s, proposal)
           accepted == IF s \in Observing THEN {} ELSE Accepted(s, proposal)
<1>1. stage[s] \in Attempt /\ stage[s].missing \in BOOLEAN
  BY DEF Attempt
<1>2. \A c \in proposal: Rejected(c) \in BOOLEAN /\ c.claim \in Claims \cup {Invented}
  <2>1. ASSUME NEW c \in proposal PROVE Rejected(c) \in BOOLEAN /\ c.claim \in Claims \cup {Invented}
    <3>1. c.flagged \in BOOLEAN /\ c.claim \in Claims \cup {Invented}
      BY DEF Candidates
    <3>2. QED
      BY <3>1 DEF Rejected
  <2>2. QED
    BY <2>1
<1>3. items \in SUBSET EvidenceRow
  BY <1>1, <1>2 DEF Items, Id, EvidenceRow, EvidenceId
<1>4. accepted \in SUBSET EvidenceId
  BY <1>1, <1>2 DEF Accepted, Id, EvidenceId, Rejected
<1>5. ASSUME NEW id \in accepted
      PROVE  id.claim \notin Wrong /\ [id |-> id, rejected |-> FALSE] \in items
  <2>1. s \notin Observing /\ id \in Accepted(s, proposal)
    OBVIOUS
  <2>2. PICK c \in proposal : ~Rejected(c) /\ id = Id(s, c.claim)
    BY <2>1 DEF Accepted
  <2>3. c.claim \notin Wrong /\ c.claim # Invented
    BY <2>2 DEF Rejected
  <2>4. [id |-> Id(s, c.claim), rejected |-> Rejected(c)] \in Items(s, proposal)
    BY <2>3 DEF Items
  <2>5. Rejected(c) = FALSE
    BY <1>2, <2>2
  <2>6. id.claim = c.claim
    BY <2>2 DEF Id
  <2>7. QED
    BY <2>1, <2>2, <2>3, <2>4, <2>5, <2>6
<1> HIDE DEF items, accepted
<1> DEFINE x == [stage[s] EXCEPT !.at = "write"]
           y == [x EXCEPT !.degraded = degraded]
           z == [y EXCEPT !.items = items]
<1>6. x \in Attempt /\ x.at = "write" /\ SameBooks(stage[s], x)
  BY <1>1, FieldType
<1> HIDE DEF x
<1>7. y \in Attempt /\ y.at = "write" /\ SameBooks(x, y)
  <2>1. \A b \in BOOLEAN: LET v == [x EXCEPT !.degraded = b] IN
          v \in Attempt /\ v.at = x.at /\ SameBooks(x, v)
    BY <1>6, FieldType
  <2>2. QED
    BY <1>6, <2>1
<1> HIDE DEF y
<1>8. z \in Attempt /\ z.at = "write" /\ SameBooks(y, z) /\ z.items = items
  BY <1>3, <1>7, ItemsType
<1> HIDE DEF z
<1> DEFINE w == [z EXCEPT !.accepted = accepted]
<1>9. w \in Attempt /\ w.at = "write" /\ SameBooks(z, w) /\ w.items = items /\ w.accepted = accepted
  BY <1>4, <1>8, AcceptedType
<1>10. Verified(s, proposal, degraded) = w
  BY DEF Verified, x, y, z, items, accepted
<1> HIDE DEF w
<1>11. SameBooks(stage[s], w)
  BY <1>6, <1>7, <1>8, <1>9 DEF SameBooks
<1>12. QED
  BY <1>5, <1>9, <1>10, <1>11

-----------------------------------------------------------------------------
(* What a step of a stage does to the ledger: only its own one changes, only *)
(* while it is at work, and only the tokens may go down, which is noted.     *)
Pays(s) ==
  /\ \A k \in Ledgers: k # Ledger[s] => usage'[k] = usage[k]
  /\ Active(stage[s]) \/ UNCHANGED usage
  /\ \A d \in Dimensions: \/ usage[Ledger[s]][d] <= usage'[Ledger[s]][d]
                          \/ d = "tokens" /\ Ledger[s] \in lowered'
  /\ lowered \subseteq lowered' /\ (lowered \subseteq Ledgers => lowered' \subseteq Ledgers)

(* And to its call.                                                          *)
Talks(s) ==
  /\ \A t \in Callers \ {s}: model'[t] = model[t]
  /\ (stage'[s].at = "reason") = (model'[s].st # "idle")

(* A step that leaves the ledger, or counts a tool call.                     *)
LEMMA PlainPays ==
  ASSUME LedgerSound, NEW s \in Callers, Active(stage[s]) \/ UNCHANGED usage, UNCHANGED lowered,
         UNCHANGED usage \/ (ToolFits(Ledger[s]) /\ ReserveTool(Ledger[s]))
  PROVE  Pays(s)
<1>1. usage \in [Ledgers -> Usage] /\ Ledger[s] \in Ledgers /\ usage[Ledger[s]] \in Usage
  BY GatewayAssumption DEF LedgerSound
<1>2. \A d \in Dimensions: usage[Ledger[s]][d] \in Nat
  BY <1>1 DEF Usage, Dimensions
<1>3. \A k \in Ledgers: k # Ledger[s] => usage'[k] = usage[k]
  BY ToolKeeps
<1>4. \A d \in Dimensions: usage[Ledger[s]][d] <= usage'[Ledger[s]][d]
  <2>1. CASE UNCHANGED usage
    BY <1>2, <2>1
  <2>2. CASE ToolFits(Ledger[s]) /\ ReserveTool(Ledger[s])
    <3> DEFINE u == usage'[Ledger[s]]
               v == usage[Ledger[s]]
    <3>1. u.model = v.model /\ u.tool = v.tool + 1 /\ u.tokens = v.tokens
      BY <2>2, ToolKeeps
    <3>2. v.model \in Nat /\ v.tool \in Nat /\ v.tokens \in Nat
      BY <1>1 DEF Usage
    <3> HIDE DEF u, v
    <3>3. \A d \in Dimensions: v[d] <= u[d]
      BY <3>1, <3>2 DEF Dimensions
    <3>4. QED
      BY <3>3 DEF u, v
  <2>3. QED
    BY <2>1, <2>2
<1>5. QED
  BY <1>3, <1>4 DEF Pays

(* A call of the gateway counts more, or settles what it had reserved.       *)
LEMMA CallPays ==
  ASSUME LedgerSound, AttemptsTyped, NEW s \in Callers, GatewayStep(s) \/ TaskCancelled(s),
         \/ lowered' = lowered \cup {l \in Ledgers : usage'[l].tokens < usage[l].tokens}
         \/ UNCHANGED <<usage, lowered>>
  PROVE  /\ Pays(s) /\ stage[s].at = "reason"
         /\ model'[s].st # "idle" /\ \A t \in Callers \ {s}: model'[t] = model[t]
<1>1. /\ usage \in [Ledgers -> Usage] /\ Ledger[s] \in Ledgers /\ usage[Ledger[s]] \in Usage
      /\ model \in [Callers -> ModelCall] /\ CallsTyped /\ Estimate \in Nat
  BY GatewayAssumption DEF LedgerSound, CallsTyped
<1>2. stage[s].at = "reason" /\ Active(stage[s])
  BY <1>1, GatewayMoves DEF AttemptsTyped, Active
<1>3. model'[s].st # "idle" /\ \A t \in Callers \ {s}: model'[t] = model[t]
  <2>1. CASE Asks(s)
    BY <1>1, <2>1 DEF Asks, ModelCall
  <2>2. CASE \E m: Left(s, m)
    BY <1>1, <2>2 DEF Left
  <2>3. QED
    BY <1>1, <2>1, <2>2, GatewayMoves DEF Settles
<1> DEFINE u == usage'[Ledger[s]]
           v == usage[Ledger[s]]
<1>4. /\ \A k \in Ledgers: k # Ledger[s] => usage'[k] = usage[k]
      /\ u \in Usage /\ u.model >= v.model /\ u.tool >= v.tool
  <2>1. CASE Asks(s)
    BY <1>1, <2>1, AskKeeps DEF Usage
  <2>2. CASE Settles(s)
    BY <1>1, <2>2, SettleKeeps DEF Usage
  <2>3. CASE UNCHANGED usage
    BY <1>1, <2>3 DEF Usage
  <2>4. QED
    BY <1>1, <2>1, <2>2, <2>3, GatewayMoves
<1>5. u.tokens >= v.tokens \/ Ledger[s] \in lowered'
  <2>1. CASE UNCHANGED usage
    BY <1>1, <2>1 DEF Usage
  <2>2. CASE lowered' = lowered \cup {l \in Ledgers : usage'[l].tokens < usage[l].tokens}
    <3>1. u.tokens < v.tokens => Ledger[s] \in lowered'
      BY <1>1, <2>2
    <3>2. u.tokens \in Nat /\ v.tokens \in Nat
      BY <1>1, <1>4 DEF Usage
    <3> HIDE DEF u, v
    <3>3. QED
      BY <3>1, <3>2
  <2>3. QED
    BY <2>1, <2>2
<1>6. v.model \in Nat /\ v.tool \in Nat /\ v.tokens \in Nat
  BY <1>1 DEF Usage
<1>7. lowered \subseteq lowered' /\ (lowered \subseteq Ledgers => lowered' \subseteq Ledgers)
  OBVIOUS
<1>8. \A d \in Dimensions: \/ v[d] <= u[d]
                           \/ d = "tokens" /\ Ledger[s] \in lowered'
  <2> HIDE DEF u, v
  <2>1. QED
    BY <1>4, <1>5, <1>6 DEF Dimensions
<1>9. QED
  BY <1>2, <1>3, <1>4, <1>7, <1>8 DEF Pays

(* The collector's end.                                                      *)
LEMMA GatheredMoves ==
  ASSUME LedgerSound, AttemptsTyped, usage' \in [Ledgers -> Usage], NEW s \in Callers,
         stage[s].at = "collect", NEW profiled \in BOOLEAN, Gathered(s, profiled)
  PROVE  Moves(s) /\ Talks(s) /\ stage'[s].at # "write"
<1>1. /\ stage \in [Callers -> Attempt] /\ stage[s] \in Attempt /\ Active(stage[s])
      /\ model[s].st = "idle" /\ model \in [Callers -> ModelCall]
  BY DEF AttemptsTyped, Active, LedgerSound, CallsTyped
<1>2. CASE profiled \/ s \in Tolerant
  <2> DEFINE x == [stage[s] EXCEPT !.at = "reason"]
             y == [x EXCEPT !.missing = ~profiled]
  <2>1. x \in Attempt /\ x.at = "reason" /\ SameBooks(stage[s], x)
    BY <1>1, FieldType
  <2>2. stage' = [stage EXCEPT ![s] = y] /\ model' = [model EXCEPT ![s] = Called]
    BY <1>1, <1>2 DEF Gathered
  <2> HIDE DEF x
  <2>3. y \in Attempt /\ y.at = "reason" /\ SameBooks(x, y)
    <3>1. \A b \in BOOLEAN: LET v == [x EXCEPT !.missing = b] IN
            v \in Attempt /\ v.at = x.at /\ SameBooks(x, v)
      BY <2>1, FieldType
    <3>2. (~profiled) \in BOOLEAN
      OBVIOUS
    <3>3. QED
      BY <2>1, <3>1, <3>2
  <2> HIDE DEF y
  <2>4. SameBooks(stage[s], y) /\ Active(y)
    BY <2>1, <2>3 DEF SameBooks, Active
  <2>5. Moves(s) /\ stage'[s] = y
    BY <1>1, <2>2, <2>3, <2>4, ReplacedMoves
  <2>6. model'[s].st = "ready" /\ \A t \in Callers \ {s}: model'[t] = model[t]
    BY <1>1, <2>2, CallsMade DEF LedgerSound
  <2>7. QED
    BY <2>3, <2>5, <2>6 DEF Talks
<1>3. CASE ~(profiled \/ s \in Tolerant)
  <2>1. Returned(s, "failed") /\ UNCHANGED model
    BY <1>3 DEF Gathered
  <2>2. Moves(s) /\ stage'[s].at \in {"due", "done"}
    BY <1>1, <2>1, ReturnedMoves DEF Outcomes
  <2>3. QED
    BY <1>1, <2>1, <2>2 DEF Talks
<1>4. QED
  BY <1>2, <1>3

(* A stage is entered, or canceled before it begins.                         *)
LEMMA EnterMoves ==
  ASSUME LedgerSound, AttemptsTyped, NEW s \in Callers, Enter(s)
  PROVE  Moves(s) /\ Talks(s) /\ stage'[s].at # "write"
<1>1. /\ stage \in [Callers -> Attempt] /\ stage[s] \in Attempt /\ stage[s].at = "due"
      /\ model[s].st = "idle" /\ UNCHANGED <<usage, model>> /\ ~Active(stage[s])
      /\ usage[Ledger[s]] \in Usage
  BY GatewayAssumption DEF AttemptsTyped, LedgerSound, Enter, callVars, gatewayVars, budgetVars, Active
<1>2. CASE Ledger[s] \in stopped
  <2>1. Over(s, "canceled", NoUsage, FALSE) /\ NoUsage \in Usage
    BY <1>2 DEF Enter, NoUsage, Usage
  <2>2. QED
    BY <1>1, <2>1, OverType DEF Moves, Tells, Talks, Ends, Outcomes
<1>3. CASE Ledger[s] \notin stopped
  <2> DEFINE u == usage[Ledger[s]]
             x == [stage[s] EXCEPT !.at = "collect"]
             y == [x EXCEPT !.before = u]
  <2>1. stage' = [stage EXCEPT ![s] = y]
    BY <1>1, <1>3 DEF Enter
  <2>2. u \in Usage /\ u = usage[Ledger[s]]
    BY <1>1
  <2> HIDE DEF u
  <2>3. x \in Attempt /\ x.at = "collect" /\ SameBooks(stage[s], x)
    BY <1>1, FieldType
  <2> HIDE DEF x
  <2>4. y \in Attempt /\ y.at = "collect" /\ y.before = u /\ y.sum = x.sum
        /\ y.uncounted = x.uncounted /\ y.status = x.status
    BY <2>2, <2>3 DEF Attempt
  <2> HIDE DEF y
  <2>5. stage' \in [Callers -> Attempt] /\ stage'[s] = y /\ \A t \in Callers \ {s}: stage'[t] = stage[t]
    BY <1>1, <2>1, <2>4
  <2>6. SameBooks([stage[s] EXCEPT !.before = u], y)
    <3>1. LET w == [stage[s] EXCEPT !.before = u] IN
            w.before = u /\ w.sum = stage[s].sum /\ w.uncounted = stage[s].uncounted /\ w.status = stage[s].status
      BY <1>1, <2>2 DEF Attempt
    <3>2. QED
      BY <2>3, <2>4, <3>1 DEF SameBooks
  <2>7. Begins(s)
    BY <1>1, <2>2, <2>4, <2>5, <2>6 DEF Begins
  <2>8. y.status = "none"
    BY <1>1, <2>3, <2>4 DEF SameBooks, AttemptsTyped
  <2>9. QED
    BY <1>1, <2>4, <2>5, <2>7, <2>8 DEF Moves, Talks
<1>4. QED
  BY <1>2, <1>3

(* The answer of the model is verified. *)
LEMMA ReasonedMoves ==
  ASSUME LedgerSound, AttemptsTyped, NEW s \in Callers, Reasoned(s)
  PROVE  /\ Moves(s) /\ Talks(s)
         /\ \E p \in SUBSET Candidates, d \in BOOLEAN: stage'[s] = Verified(s, p, d)
<1>1. /\ stage \in [Callers -> Attempt] /\ stage[s] \in Attempt /\ stage[s].at = "reason"
      /\ Active(stage[s]) /\ model \in [Callers -> ModelCall] /\ model' = [model EXCEPT ![s] = NoCall]
  BY DEF AttemptsTyped, LedgerSound, CallsTyped, Reasoned, Active
<1>2. \E p \in SUBSET Candidates, d \in BOOLEAN: stage' = [stage EXCEPT ![s] = Verified(s, p, d)]
  <2>1. Baseline \in SUBSET Candidates
    <3>1. \A c \in Claims: [claim |-> c, flagged |-> FALSE] \in Candidates
      BY DEF Candidates
    <3>2. QED
      BY <3>1 DEF Baseline
  <2>2. QED
    BY <2>1 DEF Reasoned
<1>3. PICK p \in SUBSET Candidates, d \in BOOLEAN : stage' = [stage EXCEPT ![s] = Verified(s, p, d)]
  BY <1>2
<1> DEFINE y == Verified(s, p, d)
<1>4. y \in Attempt /\ y.at = "write" /\ SameBooks(stage[s], y) /\ stage' = [stage EXCEPT ![s] = y]
  BY <1>1, <1>3, VerifiedType
<1>5. y = Verified(s, p, d)
  OBVIOUS
<1> HIDE DEF y
<1>6. Moves(s) /\ stage'[s] = y
  BY <1>1, <1>4, ReplacedMoves DEF Active
<1>7. model'[s].st = "idle" /\ \A t \in Callers \ {s}: model'[t] = model[t]
  BY <1>1 DEF NoCall
<1>8. QED
  BY <1>4, <1>5, <1>6, <1>7 DEF Talks

(* A row of the evidence is written, or clashes with another. *)
LEMMA WriteMoves ==
  ASSUME LedgerSound, AttemptsTyped, NEW s \in Callers, NEW row \in stage[s].items, WriteEvidence(s)!(row)
  PROVE  /\ Moves(s) /\ Talks(s)
         /\ Clashes(row) => stage'[s].at # "write"
         /\ ~Clashes(row) => /\ stage'[s].items = stage[s].items \ {row}
                             /\ stage'[s].accepted = stage[s].accepted
<1>1. /\ stage \in [Callers -> Attempt] /\ stage[s] \in Attempt /\ stage[s].at = "write"
      /\ Active(stage[s]) /\ model[s].st = "idle" /\ UNCHANGED <<usage, model>>
      /\ usage' \in [Ledgers -> Usage]
  BY DEF AttemptsTyped, LedgerSound, callVars, gatewayVars, budgetVars, Active
<1>2. CASE Clashes(row)
  <2>1. Moves(s) /\ stage'[s].at \in {"due", "done"}
    BY <1>1, <1>2, ReturnedMoves DEF Outcomes
  <2>2. QED
    BY <1>1, <1>2, <2>1 DEF Talks
<1>3. CASE ~Clashes(row)
  <2> DEFINE i == stage[s].items \ {row}
             y == [stage[s] EXCEPT !.items = i]
  <2>1. stage' = [stage EXCEPT ![s] = y] /\ i \in SUBSET EvidenceRow
    BY <1>1, <1>3 DEF Attempt
  <2>2. y \in Attempt /\ y.at = "write" /\ SameBooks(stage[s], y) /\ y.items = i
        /\ y.accepted = stage[s].accepted
    BY <1>1, <2>1, ItemsType
  <2> HIDE DEF y
  <2>3. Moves(s) /\ stage'[s] = y
    BY <1>1, <2>1, <2>2, ReplacedMoves DEF Active
  <2>4. QED
    BY <1>1, <1>3, <2>2, <2>3 DEF Talks
<1>4. QED
  BY <1>2, <1>3

(* A relation is written. *)
LEMMA RelateMoves ==
  ASSUME LedgerSound, AttemptsTyped, NEW s \in Callers, NEW id \in stage[s].accepted, WriteRelation(s)!(id)
  PROVE  /\ Moves(s) /\ Talks(s)
         /\ stage'[s].items = stage[s].items /\ stage'[s].accepted = stage[s].accepted \ {id}
<1>1. /\ stage \in [Callers -> Attempt] /\ stage[s] \in Attempt /\ stage[s].at = "write"
      /\ Active(stage[s]) /\ model[s].st = "idle" /\ UNCHANGED <<usage, model>>
  BY DEF AttemptsTyped, callVars, gatewayVars, budgetVars, Active
<1> DEFINE i == stage[s].accepted \ {id}
           y == [stage[s] EXCEPT !.accepted = i]
<1>2. stage' = [stage EXCEPT ![s] = y] /\ i \in SUBSET EvidenceId
  BY <1>1 DEF Attempt
<1>3. y \in Attempt /\ y.at = "write" /\ SameBooks(stage[s], y) /\ y.accepted = i
      /\ y.items = stage[s].items
  BY <1>1, <1>2, AcceptedType
<1> HIDE DEF y
<1>4. Moves(s) /\ stage'[s] = y
  BY <1>1, <1>2, <1>3, ReplacedMoves DEF Active
<1>5. QED
  BY <1>1, <1>3, <1>4 DEF Talks

(* The engine's time is up. *)
LEMMA TimeUpMoves ==
  ASSUME LedgerSound, AttemptsTyped, usage' \in [Ledgers -> Usage], NEW s \in Callers, TimeUp(s)
  PROVE  Moves(s) /\ Talks(s) /\ Pays(s) /\ stage'[s].at # "write"
<1>1. /\ stage \in [Callers -> Attempt] /\ stage[s] \in Attempt /\ UNCHANGED lowered
      /\ model \in [Callers -> ModelCall] /\ (stage[s].at = "reason") = (model[s].st # "idle")
  BY DEF AttemptsTyped, LedgerSound, CallsTyped, TimeUp, rowVars
<1>2. CASE stage[s].at = "reason" /\ TaskCancelled(s) /\ stage' = [stage EXCEPT ![s].timed = TRUE]
  <2> DEFINE y == [stage[s] EXCEPT !.timed = TRUE]
  <2>1. y \in Attempt /\ y.at = "reason" /\ SameBooks(stage[s], y) /\ stage' = [stage EXCEPT ![s] = y]
    BY <1>1, <1>2, FieldType
  <2> HIDE DEF y
  <2>2. Moves(s) /\ stage'[s] = y
    BY <1>2, <2>1, ReplacedMoves DEF Active
  <2>3. UNCHANGED usage
    BY <1>2 DEF TaskCancelled, budgetVars
  <2>4. Pays(s) /\ model'[s].st # "idle" /\ \A t \in Callers \ {s}: model'[t] = model[t]
    BY <1>1, <1>2, <2>3, CallPays
  <2>5. QED
    BY <2>1, <2>2, <2>4 DEF Talks
<1>3. CASE /\ stage[s].at = "collect" /\ ToolFits(Ledger[s]) /\ ReserveTool(Ledger[s])
           /\ IF s \in Tolerant
              THEN /\ stage' = [stage EXCEPT ![s].at = "reason", ![s].missing = TRUE, ![s].timed = TRUE]
                   /\ model' = [model EXCEPT ![s] = Called]
              ELSE Returned(s, "failed") /\ UNCHANGED model
  <2>1. Active(stage[s]) /\ model[s].st = "idle"
    BY <1>1, <1>3 DEF Active
  <2>2. Pays(s)
    BY <1>1, <1>3, <2>1, PlainPays
  <2>3. CASE s \in Tolerant
    <3> DEFINE x == [stage[s] EXCEPT !.at = "reason"]
               y == [x EXCEPT !.missing = TRUE]
               z == [y EXCEPT !.timed = TRUE]
    <3>1. x \in Attempt /\ x.at = "reason" /\ SameBooks(stage[s], x)
      BY <1>1, FieldType
    <3>2. stage' = [stage EXCEPT ![s] = z] /\ model' = [model EXCEPT ![s] = Called]
      BY <1>1, <1>3, <2>3
    <3> HIDE DEF x
    <3>3. y \in Attempt /\ y.at = "reason" /\ SameBooks(x, y)
      BY <3>1, FieldType
    <3> HIDE DEF y
    <3>4. z \in Attempt /\ z.at = "reason" /\ SameBooks(y, z)
      BY <3>3, FieldType
    <3> HIDE DEF z
    <3>5. SameBooks(stage[s], z) /\ Active(z)
      BY <3>1, <3>3, <3>4 DEF SameBooks, Active
    <3>6. Moves(s) /\ stage'[s] = z
      BY <2>1, <3>2, <3>4, <3>5, ReplacedMoves
    <3>7. model'[s].st = "ready" /\ \A t \in Callers \ {s}: model'[t] = model[t]
      BY <1>1, <3>2, CallsMade DEF LedgerSound
    <3>8. QED
      BY <2>2, <3>4, <3>6, <3>7 DEF Talks
  <2>4. CASE s \notin Tolerant
    <3>1. Moves(s) /\ stage'[s].at \in {"due", "done"}
      BY <1>3, <2>1, <2>4, ReturnedMoves DEF Outcomes
    <3>2. QED
      BY <1>3, <2>1, <2>2, <2>4, <3>1 DEF Talks
  <2>5. QED
    BY <2>3, <2>4
<1>4. CASE stage[s].at = "write" /\ UNCHANGED callVars /\ TimedOut(s)
  <2>1. Active(stage[s]) /\ UNCHANGED <<usage, model>> /\ model[s].st = "idle"
    BY <1>1, <1>4 DEF Active, callVars, gatewayVars, budgetVars
  <2>2. Moves(s) /\ stage'[s].at \in {"due", "done"}
    BY <1>4, <2>1, LostMoves DEF TimedOut, Outcomes
  <2>3. Pays(s)
    BY <1>1, <2>1, PlainPays
  <2>4. QED
    BY <2>1, <2>2, <2>3 DEF Talks
<1>5. QED
  BY <1>2, <1>3, <1>4 DEF TimeUp

(* Every step of a stage.                                                    *)
LEMMA StageMoves ==
  ASSUME LedgerSound, usage' \in [Ledgers -> Usage], AttemptsTyped, NEW s \in Callers,
         StageStep(s) \/ StoreFails(s) \/ TimeUp(s)
  PROVE  Moves(s) /\ Talks(s) /\ Pays(s) /\ UNCHANGED <<spent, joined, restarts>>
<1>1. /\ stage \in [Callers -> Attempt] /\ stage[s] \in Attempt
      /\ (stage[s].at = "reason") = (model[s].st # "idle")
  BY DEF AttemptsTyped
<1>2. CASE Enter(s)
  <2>1. UNCHANGED <<usage, lowered, spent, joined, restarts>>
    BY <1>2 DEF Enter, callVars, budgetVars, rowVars
  <2>2. QED
    BY <1>2, <2>1, EnterMoves, PlainPays
<1>3. CASE Profile(s)
  <2>1. /\ UNCHANGED <<lowered, spent, joined, restarts>> /\ stage[s].at = "collect" /\ Active(stage[s])
        /\ UNCHANGED usage \/ (ToolFits(Ledger[s]) /\ ReserveTool(Ledger[s]))
        /\ (UNCHANGED <<stage, model>>) \/ \E profiled \in BOOLEAN: Gathered(s, profiled)
    BY <1>3 DEF Profile, rowVars, Active
  <2>2. Pays(s)
    BY <2>1, PlainPays
  <2>3. CASE UNCHANGED <<stage, model>>
    <3>1. stage' = [stage EXCEPT ![s] = stage[s]] /\ SameBooks(stage[s], stage[s])
      BY <1>1, <2>3 DEF SameBooks
    <3>2. Moves(s)
      BY <1>1, <2>1, <3>1, ReplacedMoves
    <3>3. QED
      BY <1>1, <2>1, <2>2, <2>3, <3>2 DEF Talks
  <2>4. QED
    BY <2>1, <2>2, <2>3, GatheredMoves
<1>4. CASE Reasoned(s)
  <2>1. UNCHANGED <<usage, lowered, spent, joined, restarts>>
    BY <1>4 DEF Reasoned, budgetVars, rowVars
  <2>2. QED
    BY <1>4, <2>1, ReasonedMoves, PlainPays
<1>5. CASE WriteEvidence(s) \/ WriteRelation(s)
  <2>1. UNCHANGED <<usage, lowered, spent, joined, restarts>>
    BY <1>5 DEF WriteEvidence, WriteRelation, callVars, budgetVars, rowVars
  <2>2. Moves(s) /\ Talks(s)
    <3>1. CASE WriteEvidence(s)
      BY <3>1, WriteMoves DEF WriteEvidence
    <3>2. CASE WriteRelation(s)
      BY <3>2, RelateMoves DEF WriteRelation
    <3>3. QED
      BY <1>5, <3>1, <3>2
  <2>3. QED
    BY <2>1, <2>2, PlainPays
<1>6. CASE Conclude(s) \/ StoreFails(s)
  <2>1. /\ UNCHANGED <<usage, model, lowered, spent, joined, restarts>> /\ stage[s].at = "write"
        /\ Active(stage[s]) /\ model[s].st = "idle"
        /\ (\E status \in Outcomes: Returned(s, status)) \/ Over(s, "raised", NoUsage, TRUE)
    BY <1>1, <1>6 DEF Conclude, StoreFails, Raised, Outcomes, callVars, gatewayVars, budgetVars, rowVars, Active
  <2>2. Moves(s) /\ stage'[s].at \in {"due", "done"}
    BY <2>1, ReturnedMoves, LostMoves DEF Outcomes
  <2>3. QED
    BY <2>1, <2>2, PlainPays DEF Talks
<1>7. CASE CallStep(s)
  <2>1. /\ UNCHANGED <<stage, spent, joined, restarts>> /\ GatewayStep(s)
        /\ lowered' = lowered \cup {l \in Ledgers : usage'[l].tokens < usage[l].tokens}
    BY <1>7 DEF CallStep
  <2>2. /\ Pays(s) /\ stage[s].at = "reason" /\ Active(stage[s])
        /\ model'[s].st # "idle" /\ \A t \in Callers \ {s}: model'[t] = model[t]
    BY <2>1, CallPays DEF Active
  <2>3. stage' = [stage EXCEPT ![s] = stage[s]] /\ SameBooks(stage[s], stage[s])
    BY <1>1, <2>1 DEF SameBooks
  <2>4. Moves(s)
    BY <1>1, <2>2, <2>3, ReplacedMoves
  <2>5. QED
    BY <2>1, <2>2, <2>4 DEF Talks
<1>8. CASE TimeUp(s)
  BY <1>8, TimeUpMoves DEF TimeUp, rowVars
<1>9. QED
  BY <1>2, <1>3, <1>4, <1>5, <1>6, <1>7, <1>8 DEF StageStep

-----------------------------------------------------------------------------
(* A restart blocks what was at work, and leaves the rest.                   *)
LEMMA RestartMoves ==
  ASSUME AttemptsTyped, Restart
  PROVE  /\ AttemptsTyped'
         /\ \A s \in Callers: /\ ~Active(stage'[s])
                              /\ stage'[s] = stage[s] \/ stage'[s].uncounted = TRUE
<1> DEFINE blocked(s) == [FirstAttempt EXCEPT !.attempt = stage[s].attempt, !.uncounted = TRUE,
                                              !.at = "done", !.status = "blocked"]
<1>1. stage \in [Callers -> Attempt]
  BY DEF AttemptsTyped
<1>2. FirstAttempt \in Attempt /\ FirstAttempt.at = "due" /\ FirstAttempt.status = "none"
  BY StagesAssumption DEF FirstAttempt, Attempt, Usage, NoUsage
<1>3. ASSUME NEW s \in Callers
      PROVE  /\ blocked(s) \in Attempt /\ blocked(s).at = "done" /\ blocked(s).status = "blocked"
             /\ blocked(s).uncounted = TRUE
  <2>1. stage[s].attempt \in 1..MaxAttempts
    BY <1>1 DEF Attempt
  <2> DEFINE x == [FirstAttempt EXCEPT !.attempt = stage[s].attempt]
             y == [x EXCEPT !.uncounted = TRUE]
             z == [y EXCEPT !.at = "done"]
             w == [z EXCEPT !.status = "blocked"]
  <2>2. x \in Attempt
    BY <1>2, <2>1 DEF Attempt
  <2> HIDE DEF x
  <2>3. y \in Attempt /\ y.uncounted = TRUE
    BY <2>2 DEF Attempt
  <2> HIDE DEF y
  <2>4. z \in Attempt /\ z.at = "done" /\ z.uncounted = TRUE
    BY <2>3 DEF Attempt
  <2> HIDE DEF z
  <2>5. w \in Attempt /\ w.at = "done" /\ w.uncounted = TRUE /\ w.status = "blocked"
    BY <2>4 DEF Attempt, Outcomes
  <2>6. blocked(s) = w
    BY DEF x, y, z
  <2> HIDE DEF w
  <2>7. QED
    BY <2>5, <2>6
<1>4. stage' = [s \in Callers |-> IF stage[s].at = "done" \/ stage[s] = FirstAttempt THEN stage[s]
                                  ELSE blocked(s)]
  BY DEF Restart
<1>5. model' = [s \in Callers |-> NoCall] /\ NoCall.st = "idle"
  BY DEF Restart, NoCall
<1> HIDE DEF blocked
<1>6. stage' \in [Callers -> Attempt]
  BY <1>1, <1>3, <1>4
<1>7. ASSUME NEW s \in Callers
      PROVE  /\ ~Active(stage'[s]) /\ (stage'[s] = stage[s] \/ stage'[s].uncounted = TRUE)
             /\ (stage'[s].at = "done") = (stage'[s].status # "none")
             /\ (stage'[s].at = "reason") = (model'[s].st # "idle")
  <2>1. CASE stage[s].at = "done" \/ stage[s] = FirstAttempt
    <3>1. stage'[s] = stage[s] /\ model'[s].st = "idle" /\ stage[s].at \in {"done", "due"}
      BY <1>2, <1>4, <1>5, <2>1
    <3>2. QED
      BY <3>1 DEF AttemptsTyped, Active
  <2>2. CASE ~(stage[s].at = "done" \/ stage[s] = FirstAttempt)
    <3>1. stage'[s] = blocked(s) /\ model'[s].st = "idle"
      BY <1>4, <1>5, <2>2
    <3>2. QED
      BY <1>3, <3>1 DEF Active
  <2>3. QED
    BY <2>1, <2>2
<1>8. QED
  BY <1>6, <1>7 DEF AttemptsTyped

(* The steps that concern no stage and no ledger's counts.                   *)
LEMMA Elsewhere ==
  ASSUME Cancel \/ Deadline \/ Join \/ UNCHANGED vars
  PROVE  UNCHANGED <<usage, model, stage, evidence, relations, lowered>>
  BY DEF Cancel, Deadline, DeadlinePasses, Join, vars, callVars, gatewayVars, budgetVars, rowVars, storeVars

(* A stage's own step, or one of these.                                      *)
LEMMA StepKinds ==
  ASSUME [Next]_vars
  PROVE  \/ \E s \in Callers: StageStep(s) \/ StoreFails(s) \/ TimeUp(s)
         \/ Cancel \/ Deadline \/ Join \/ UNCHANGED vars
         \/ Restart
  BY DEF Next

(* Attempts stay in their domain. *)
LEMMA AttemptsStep ==
  ASSUME LedgerSound, LedgerSound', AttemptsTyped, [Next]_vars
  PROVE  AttemptsTyped'
<1>1. ASSUME NEW s \in Callers, StageStep(s) \/ StoreFails(s) \/ TimeUp(s)
      PROVE  AttemptsTyped'
  <2>1. Moves(s) /\ Talks(s)
    BY <1>1, StageMoves DEF LedgerSound
  <2>2. stage' \in [Callers -> Attempt] /\ \A t \in Callers \ {s}: stage'[t] = stage[t] /\ model'[t] = model[t]
    BY <2>1 DEF Moves, Talks
  <2>3. /\ (stage'[s].at = "done") = (stage'[s].status # "none")
        /\ (stage'[s].at = "reason") = (model'[s].st # "idle")
    BY <2>1 DEF Moves, Talks
  <2>4. ASSUME NEW t \in Callers
        PROVE  /\ (stage'[t].at = "done") = (stage'[t].status # "none")
               /\ (stage'[t].at = "reason") = (model'[t].st # "idle")
    <3>1. CASE t = s
      BY <2>3, <3>1
    <3>2. CASE t # s
      BY <2>2, <3>2 DEF AttemptsTyped
    <3>3. QED
      BY <3>1, <3>2
  <2>5. QED
    BY <2>2, <2>4 DEF AttemptsTyped
<1>2. CASE Cancel \/ Deadline \/ Join \/ UNCHANGED vars
  BY <1>2, Elsewhere DEF AttemptsTyped
<1>3. CASE Restart
  BY <1>3, RestartMoves
<1>4. QED
  BY <1>1, <1>2, <1>3, StepKinds

-----------------------------------------------------------------------------
(* What holds of the store in every state.                                   *)
EvidenceSound ==
  /\ evidence \subseteq EvidenceRow /\ relations \subseteq EvidenceId
  /\ OneContent /\ AcceptedIsBacked /\ RelationsRest

(* An attempt that is not about to write needs no evidence.                  *)
LEMMA AttemptMoves ==
  ASSUME EvidenceSound, NEW s \in Callers, Moves(s), stage'[s].at # "write",
         UNCHANGED <<evidence, relations>>
  PROVE  EvidenceSound'
<1>1. AcceptedIsBacked'
  BY DEF EvidenceSound, AcceptedIsBacked, Moves
<1>2. QED
  BY <1>1 DEF EvidenceSound, OneContent, RelationsRest

(* Every step of a stage, of its store and of its engine keeps it.           *)
LEMMA EvidenceStep ==
  ASSUME LedgerSound, LedgerSound', AttemptsTyped, EvidenceSound, [Next]_vars
  PROVE  EvidenceSound'
<1>1. /\ evidence \subseteq EvidenceRow /\ relations \subseteq EvidenceId
      /\ OneContent /\ AcceptedIsBacked /\ RelationsRest
      /\ stage \in [Callers -> Attempt] /\ \A s \in Callers: stage[s] \in Attempt
  BY DEF EvidenceSound, AttemptsTyped
<1>2. usage' \in [Ledgers -> Usage]
  BY DEF LedgerSound
<1>3. ASSUME UNCHANGED <<stage, evidence, relations>> PROVE EvidenceSound'
  BY <1>3 DEF EvidenceSound, OneContent, AcceptedIsBacked, RelationsRest
<1>4. ASSUME NEW s \in Callers, Enter(s) PROVE EvidenceSound'
  BY <1>4, EnterMoves, AttemptMoves DEF Enter, storeVars
<1>5. ASSUME NEW s \in Callers, Profile(s) PROVE EvidenceSound'
  <2>1. UNCHANGED <<evidence, relations>> /\ stage[s].at = "collect"
    BY <1>5 DEF Profile, storeVars
  <2>2. UNCHANGED stage \/ \E profiled \in BOOLEAN: Gathered(s, profiled)
    BY <1>5 DEF Profile
  <2>3. QED
    BY <1>2, <1>3, <2>1, <2>2, GatheredMoves, AttemptMoves
<1>6. ASSUME NEW s \in Callers, TimeUp(s) PROVE EvidenceSound'
  <2>1. UNCHANGED <<evidence, relations>>
    BY <1>6 DEF TimeUp, storeVars
  <2>2. QED
    BY <1>2, <1>6, <2>1, TimeUpMoves, AttemptMoves
<1>7. ASSUME NEW s \in Callers, Conclude(s) \/ StoreFails(s) PROVE EvidenceSound'
  <2>1. /\ UNCHANGED <<evidence, relations>> /\ Active(stage[s])
        /\ (\E status \in Outcomes: Returned(s, status)) \/ Over(s, "raised", NoUsage, TRUE)
    BY <1>7 DEF Conclude, StoreFails, Raised, Outcomes, storeVars, Active
  <2>2. Moves(s) /\ stage'[s].at # "write"
    BY <1>2, <2>1, ReturnedMoves, LostMoves DEF Outcomes
  <2>3. QED
    BY <2>1, <2>2, AttemptMoves
<1>8. ASSUME NEW s \in Callers, Reasoned(s) PROVE EvidenceSound'
  <2>1. PICK p \in SUBSET Candidates, d \in BOOLEAN : stage'[s] = Verified(s, p, d)
    BY <1>8, ReasonedMoves
  <2>2. \A t \in Callers \ {s}: stage'[t] = stage[t]
    BY <1>8, ReasonedMoves DEF Moves
  <2>3. UNCHANGED <<evidence, relations>>
    BY <1>8 DEF Reasoned, storeVars
  <2>4. AcceptedIsBacked'
    BY <1>1, <2>1, <2>2, <2>3, VerifiedType DEF AcceptedIsBacked
  <2>5. QED
    BY <1>1, <2>3, <2>4 DEF EvidenceSound, OneContent, RelationsRest
<1>9. ASSUME NEW s \in Callers, WriteEvidence(s) PROVE EvidenceSound'
  <2>1. PICK row \in stage[s].items : WriteEvidence(s)!(row)
    BY <1>9 DEF WriteEvidence
  <2>2. CASE Clashes(row)
    BY <2>1, <2>2, WriteMoves, AttemptMoves
  <2>3. CASE ~Clashes(row)
    <3>1. evidence' = evidence \cup {row} /\ relations' = relations /\ row \in EvidenceRow
      BY <1>1, <2>1, <2>3 DEF Attempt
    <3>2. /\ stage'[s].items = stage[s].items \ {row} /\ stage'[s].accepted = stage[s].accepted
          /\ stage[s].at = "write" /\ \A t \in Callers \ {s}: stage'[t] = stage[t]
      BY <2>1, <2>3, WriteMoves DEF Moves
    <3>3. OneContent'
      BY <1>1, <2>3, <3>1 DEF OneContent, Clashes
    <3>4. AcceptedIsBacked'
      BY <1>1, <3>1, <3>2 DEF AcceptedIsBacked
    <3>5. RelationsRest'
      <4> SUFFICES ASSUME NEW id \in relations
                   PROVE  /\ id.claim \notin Wrong
                          /\ [id |-> id, rejected |-> FALSE] \in evidence'
                          /\ [id |-> id, rejected |-> TRUE] \notin evidence'
        BY <3>1 DEF RelationsRest
      <4>1. /\ id.claim \notin Wrong /\ [id |-> id, rejected |-> FALSE] \in evidence
            /\ [id |-> id, rejected |-> TRUE] \notin evidence
        BY <1>1 DEF RelationsRest
      <4>2. row # [id |-> id, rejected |-> TRUE]
        BY <2>3, <4>1 DEF Clashes
      <4>3. QED
        BY <3>1, <4>1, <4>2
    <3>6. QED
      BY <1>1, <3>1, <3>3, <3>4, <3>5 DEF EvidenceSound
  <2>4. QED
    BY <2>2, <2>3
<1>10. ASSUME NEW s \in Callers, WriteRelation(s) PROVE EvidenceSound'
  <2>1. PICK id \in stage[s].accepted : WriteRelation(s)!(id)
    BY <1>10 DEF WriteRelation
  <2>2. relations' = relations \cup {id} /\ evidence' = evidence /\ stage[s].at = "write" /\ stage[s].items = {}
    BY <2>1
  <2>3. id.claim \notin Wrong /\ [id |-> id, rejected |-> FALSE] \in evidence
    BY <1>1, <2>1, <2>2 DEF AcceptedIsBacked
  <2>4. [id |-> id, rejected |-> TRUE] \notin evidence /\ id \in EvidenceId
    BY <1>1, <2>1, <2>3 DEF OneContent, Attempt
  <2>5. /\ stage'[s].items = stage[s].items /\ stage'[s].accepted = stage[s].accepted \ {id}
        /\ \A t \in Callers \ {s}: stage'[t] = stage[t]
    BY <2>1, RelateMoves DEF Moves
  <2>6. AcceptedIsBacked'
    BY <1>1, <2>2, <2>5 DEF AcceptedIsBacked
  <2>7. RelationsRest'
    BY <1>1, <2>2, <2>3, <2>4 DEF RelationsRest
  <2>8. QED
    BY <1>1, <2>2, <2>4, <2>6, <2>7 DEF EvidenceSound, OneContent
<1>11. CASE Cancel \/ Deadline \/ Join \/ UNCHANGED vars
  BY <1>3, <1>11, Elsewhere
<1>12. CASE Restart
  <2>1. UNCHANGED <<evidence, relations>> /\ \A s \in Callers: stage'[s].at # "write"
    BY <1>12, RestartMoves DEF Restart, storeVars, Active
  <2>2. AcceptedIsBacked'
    BY <2>1 DEF AcceptedIsBacked
  <2>3. QED
    BY <1>1, <2>1, <2>2 DEF EvidenceSound, OneContent, RelationsRest
<1>13. ASSUME NEW s \in Callers, CallStep(s) PROVE EvidenceSound'
  BY <1>3, <1>13 DEF CallStep, storeVars
<1>14. QED
  BY <1>4, <1>5, <1>6, <1>7, <1>8, <1>9, <1>10, <1>11, <1>12, <1>13, StepKinds DEF StageStep

(* The first attempts. *)
LEMMA StagesStart == Init => AttemptsTyped /\ EvidenceSound
<1> SUFFICES ASSUME Init PROVE AttemptsTyped /\ EvidenceSound
  OBVIOUS
<1>1. FirstAttempt \in Attempt /\ FirstAttempt.at = "due" /\ FirstAttempt.status = "none" /\ NoCall.st = "idle"
  BY StagesAssumption DEF FirstAttempt, Attempt, Usage, NoUsage, NoCall
<1>2. stage = [s \in Callers |-> FirstAttempt] /\ model = [s \in Callers |-> NoCall]
      /\ evidence = {} /\ relations = {}
  BY DEF Init, GatewayInit
<1>3. QED
  BY <1>1, <1>2 DEF AttemptsTyped, EvidenceSound, OneContent, AcceptedIsBacked, RelationsRest

(* A relation rests on stored evidence that nobody rejected, whatever models *)
(* propose, stages repeat, budgets refuse and processes lose, for any number *)
(* of stages and claims (worker_verifier.py, verify; repository.py,          *)
(* append_evidence).                                                         *)
THEOREM RelationsAlwaysRest == Spec => []RelationsRest
<1>1. EvidenceSound => RelationsRest
  BY DEF EvidenceSound
<1>2. LedgerSound /\ AttemptsTyped /\ EvidenceSound /\ [Next]_vars
        => LedgerSound' /\ AttemptsTyped' /\ EvidenceSound'
  BY LedgerStep, AttemptsStep, EvidenceStep
<1>3. QED
  BY <1>1, <1>2, LedgerStarts, StagesStart, PTL DEF Spec

-----------------------------------------------------------------------------
(* What the stages have told.                                                *)
Units(d) == UNION {{s} \X (1..stage[s].sum[d]) : s \in Callers}

(* It is a number: the stages are finitely many, and each has told one.      *)
LEMMA ToldType ==
  ASSUME stage \in [Callers -> Attempt], NEW d \in Dimensions
  PROVE  IsFiniteSet(Units(d)) /\ Told(d) = Cardinality(Units(d)) /\ Told(d) \in Nat
<1> DEFINE part == [s \in Callers |-> {s} \X (1..stage[s].sum[d])]
           parts == {{s} \X (1..stage[s].sum[d]) : s \in Callers}
<1>1. \A s \in Callers: stage[s].sum[d] \in Nat
  BY DEF Attempt, Usage, Dimensions
<1>2. ASSUME NEW s \in Callers PROVE IsFiniteSet({s} \X (1..stage[s].sum[d]))
  <2>1. \A n \in Nat: IsFiniteSet(1..n)
    BY FS_Interval
  <2>2. IsFiniteSet({s}) /\ IsFiniteSet(1..stage[s].sum[d])
    BY <1>1, <2>1, FS_Singleton
  <2>3. QED
    BY <2>2, FS_Product
<1>3. IsFiniteSet(parts)
  <2>1. part \in Surjection(Callers, parts)
    BY DEF Surjection
  <2> HIDE DEF part, parts
  <2>2. QED
    BY <2>1, FS_Surjection, StagesAssumption
<1>4. \A T \in parts: IsFiniteSet(T)
  BY <1>2
<1>5. IsFiniteSet(UNION parts)
  <2> HIDE DEF parts
  <2>1. QED
    BY <1>3, <1>4, FS_UNION
<1>6. Units(d) = UNION parts /\ Told(d) = Cardinality(Units(d))
  BY DEF Units, Told
<1> HIDE DEF parts
<1>7. QED
  BY <1>5, <1>6, FS_CardinalityType

(* It grows by what one of them adds.                                        *)
LEMMA ToldGrows ==
  ASSUME stage \in [Callers -> Attempt], stage' \in [Callers -> Attempt], NEW s \in Callers,
         \A t \in Callers \ {s}: stage'[t].sum = stage[t].sum,
         NEW d \in Dimensions, NEW n \in Nat, stage'[s].sum[d] = stage[s].sum[d] + n
  PROVE  Told(d)' = Told(d) + n
<1> DEFINE m == stage[s].sum[d]
           new == {s} \X (m + 1..m + n)
<1>1. m \in Nat
  BY DEF Attempt, Usage, Dimensions
<1>2. Units(d)' = Units(d) \cup new
  <2> DEFINE after(t) == {t} \X (1..stage'[t].sum[d])
             before(t) == {t} \X (1..stage[t].sum[d])
  <2>1. \A t \in Callers: t # s => after(t) = before(t)
    OBVIOUS
  <2>2. after(s) = before(s) \cup new
    <3>1. 1..(m + n) = (1..m) \cup (m + 1..m + n)
      BY <1>1
    <3>2. after(s) = {s} \X (1..(m + n)) /\ before(s) = {s} \X (1..m)
      OBVIOUS
    <3>3. QED
      BY <3>1, <3>2
  <2>3. Units(d)' = UNION {after(t) : t \in Callers} /\ Units(d) = UNION {before(t) : t \in Callers}
    BY DEF Units
  <2> HIDE DEF after, before, new
  <2>4. QED
    BY <2>1, <2>2, <2>3
<1>3. Units(d) \cap new = {}
  <2>1. ASSUME NEW x \in Units(d), x \in new PROVE FALSE
    <3>1. PICK t \in Callers : x \in {t} \X (1..stage[t].sum[d])
      BY <2>1 DEF Units
    <3>2. x[1] = s /\ x[2] \in m + 1..m + n
      BY <2>1
    <3>3. t = s /\ x[2] \in 1..m
      BY <3>1, <3>2
    <3>4. QED
      BY <1>1, <3>2, <3>3
  <2>2. QED
    BY <2>1
<1>4. IsFiniteSet(new) /\ Cardinality(new) = n
  <2>1. /\ IsFiniteSet({s}) /\ Cardinality({s}) = 1
        /\ IsFiniteSet(m + 1..m + n) /\ Cardinality(m + 1..m + n) = n
    <3>1. m + 1 \in Int /\ m + n \in Int /\ (m + 1 > m + n <=> n = 0) /\ (m + n) - (m + 1) + 1 = n
      BY <1>1
    <3>2. QED
      BY <3>1, FS_Singleton, FS_Interval
  <2> DEFINE more == m + 1..m + n
  <2>2. IsFiniteSet({s}) /\ Cardinality({s}) = 1 /\ IsFiniteSet(more) /\ Cardinality(more) = n
    BY <2>1
  <2>3. new = {s} \X more
    OBVIOUS
  <2> HIDE DEF more, new
  <2>4. IsFiniteSet({s} \X more) /\ Cardinality({s} \X more) = Cardinality({s}) * Cardinality(more)
    BY <2>2, FS_Product
  <2>5. QED
    BY <2>2, <2>3, <2>4
<1>5. IsFiniteSet(Units(d)) /\ Told(d) = Cardinality(Units(d)) /\ Told(d) \in Nat
  BY ToldType
<1>6. Told(d)' = Cardinality(Units(d)')
  BY DEF Told, Units
<1> HIDE DEF new
<1>7. Cardinality(Units(d) \cup new) = Cardinality(Units(d)) + Cardinality(new) - Cardinality({})
  BY <1>3, <1>4, <1>5, FS_Union
<1>8. Cardinality({}) = 0
  BY FS_EmptySet
<1>9. QED
  BY <1>2, <1>4, <1>5, <1>6, <1>7, <1>8

-----------------------------------------------------------------------------
(* A count of a ledger that may have been lowered is not followed.           *)
Followed(l, d) == d = "tokens" => l \notin lowered

(* What is told covers a count of the ledger, or will when a stage at work   *)
(* tells its own: it covers what that stage found when it began.             *)
Covered(l, d) ==
  \/ usage[l][d] <= Told(d)
  \/ \E s \in Callers: Ledger[s] = l /\ Active(stage[s]) /\ stage[s].before[d] <= Told(d)

(* A stage at work found no more than the ledger has.                        *)
BeganBelow == \A s \in Callers, d \in Dimensions:
  (Active(stage[s]) /\ Followed(Ledger[s], d)) => stage[s].before[d] <= usage[Ledger[s]][d]

AllCovered ==
  (\A s \in Callers: ~stage[s].uncounted) =>
    \A l \in Ledgers, d \in Dimensions: Followed(l, d) => Covered(l, d)

(* The row has taken in what all of them told.                               *)
RowTold == IF joined THEN /\ \A s \in Callers: stage[s].at = "done"
                          /\ spent \in Usage /\ \A d \in Dimensions: spent[d] = Told(d)
           ELSE spent = NoUsage

CoverSound == BeganBelow /\ AllCovered /\ RowTold

(* Counts are numbers. *)
LEMMA CountsAreNumbers ==
  /\ LedgerSound => \A l \in Ledgers, d \in Dimensions: usage[l][d] \in Nat
  /\ AttemptsTyped => \A s \in Callers, d \in Dimensions: /\ stage[s].before[d] \in Nat
                                                         /\ stage[s].sum[d] \in Nat
                                                         /\ stage[s].uncounted \in BOOLEAN
  /\ \A u \in Usage, d \in Dimensions: u[d] \in Nat
  /\ \A u, v \in Usage, d \in Dimensions: Added(u, v)[d] = u[d] + v[d]
  /\ NoUsage \in Usage /\ \A d \in Dimensions: NoUsage[d] = 0
<1>1. \A u \in Usage, d \in Dimensions: u[d] \in Nat
  BY DEF Usage, Dimensions
<1>2. \A u, v \in Usage, d \in Dimensions: Added(u, v)[d] = u[d] + v[d]
  BY DEF Usage, Dimensions, Added
<1>3. NoUsage \in Usage /\ \A d \in Dimensions: NoUsage[d] = 0
  BY DEF Usage, Dimensions, NoUsage
<1>4. LedgerSound => \A l \in Ledgers, d \in Dimensions: usage[l][d] \in Nat
  BY <1>1 DEF LedgerSound
<1>5. AttemptsTyped => \A s \in Callers: stage[s].before \in Usage /\ stage[s].sum \in Usage
                                         /\ stage[s].uncounted \in BOOLEAN
  BY DEF AttemptsTyped, Attempt
<1>6. QED
  BY <1>1, <1>2, <1>3, <1>4, <1>5

(* What an attempt tells adds to what is told; one that goes on or begins    *)
(* adds nothing.                                                             *)
LEMMA TellsMore ==
  ASSUME LedgerSound, LedgerSound', AttemptsTyped, NEW s \in Callers, Moves(s), NEW d \in Dimensions
  PROVE  \E n \in Nat: /\ Told(d) \in Nat /\ Told(d)' = Told(d) + n
                       /\ (GoesOn(s) \/ Begins(s)) => n = 0
                       /\ Ends(s, Delta(s), FALSE) => usage'[Ledger[s]][d] <= stage[s].before[d] + n
<1>1. /\ stage \in [Callers -> Attempt] /\ stage' \in [Callers -> Attempt]
      /\ \A t \in Callers \ {s}: stage'[t].sum = stage[t].sum
      /\ stage[s].sum \in Usage /\ stage[s].sum[d] \in Nat /\ stage[s] \in Attempt
  BY CountsAreNumbers DEF Moves, AttemptsTyped, Attempt
<1>2. \A n \in Nat: stage'[s].sum[d] = stage[s].sum[d] + n => Told(d)' = Told(d) + n
  BY <1>1, ToldGrows
<1>3. Told(d) \in Nat
  BY <1>1, ToldType
<1>4. CASE GoesOn(s) \/ Begins(s)
  <2>1. stage'[s].sum = stage[s].sum /\ stage'[s].at \notin {"due", "done"}
    BY <1>1, <1>4 DEF GoesOn, Begins, SameBooks, Attempt, Active
  <2>2. Told(d)' = Told(d) + 0
    BY <1>1, <1>2, <2>1
  <2>3. ~Ends(s, Delta(s), FALSE)
    BY <2>1 DEF Ends
  <2>4. QED
    BY <1>3, <2>2, <2>3, Zenon
<1>5. ASSUME NEW used \in Usage, stage'[s].sum = Added(stage[s].sum, used)
      PROVE  Told(d)' = Told(d) + used[d] /\ used[d] \in Nat
  <2>1. used[d] \in Nat /\ stage'[s].sum[d] = stage[s].sum[d] + used[d]
    BY <1>1, <1>5, CountsAreNumbers
  <2>2. QED
    BY <1>2, <2>1
<1>6. CASE Ends(s, Delta(s), FALSE)
  <2>1. Delta(s) \in Usage
    BY <1>1, DeltaType DEF LedgerSound
  <2>2. Told(d)' = Told(d) + Delta(s)[d] /\ Delta(s)[d] \in Nat
    BY <1>5, <1>6, <2>1 DEF Ends
  <2>3. /\ usage'[Ledger[s]][d] \in Nat /\ stage[s].before[d] \in Nat
    <3>1. usage'[Ledger[s]] \in Usage /\ stage[s].before \in Usage
      BY <1>1, GatewayAssumption DEF LedgerSound, Attempt
    <3>2. QED
      BY <3>1, CountsAreNumbers
  <2>4. usage'[Ledger[s]][d] <= stage[s].before[d] + Delta(s)[d]
    BY <2>3 DEF Delta
  <2>5. stage'[s].at \in {"due", "done"}
    BY <1>6 DEF Ends
  <2>6. ~(GoesOn(s) \/ Begins(s))
    BY <2>5 DEF GoesOn, Begins, Active
  <2>7. QED
    BY <1>3, <2>2, <2>4, <2>6, Zenon
<1>7. CASE Ends(s, NoUsage, TRUE) \/ Ends(s, NoUsage, FALSE)
  <2>1. Told(d)' = Told(d) + NoUsage[d] /\ NoUsage[d] = 0
    BY <1>5, <1>7, CountsAreNumbers DEF Ends
  <2>2. ~(GoesOn(s) \/ Begins(s))
    BY <1>7 DEF Ends, GoesOn, Begins, Active
  <2>3. Told(d)' = Told(d) + 0
    BY <2>1
  <2>4. CASE ~Ends(s, Delta(s), FALSE)
    BY <1>3, <2>2, <2>3, <2>4, Zenon
  <2>5. QED
    BY <1>6, <2>4
<1>8. QED
  BY <1>4, <1>6, <1>7 DEF Moves, Tells

(* A stage's own step keeps what it and the others found below the ledger.   *)
LEMMA BeganStep ==
  ASSUME LedgerSound, LedgerSound', AttemptsTyped, BeganBelow, NEW s \in Callers, Moves(s), Pays(s)
  PROVE  BeganBelow'
<1> SUFFICES ASSUME NEW t \in Callers, NEW d \in Dimensions, Active(stage'[t]),
                    d = "tokens" => Ledger[t] \notin lowered'
             PROVE  stage'[t].before[d] <= usage'[Ledger[t]][d]
  BY DEF BeganBelow, Followed, Active
<1>1. Ledger[t] \in Ledgers /\ Ledger[s] \in Ledgers /\ Followed(Ledger[t], d)
  BY GatewayAssumption DEF Pays, Followed
<1>2. usage[Ledger[t]][d] \in Nat /\ usage'[Ledger[t]][d] \in Nat /\ stage[t].before[d] \in Nat
  <2>1. usage'[Ledger[t]] \in Usage
    BY <1>1 DEF LedgerSound
  <2>2. QED
    BY <1>1, <2>1, CountsAreNumbers
<1>3. usage[Ledger[t]][d] <= usage'[Ledger[t]][d]
  <2>1. CASE Ledger[t] = Ledger[s]
    BY <2>1 DEF Pays
  <2>2. CASE Ledger[t] # Ledger[s]
    BY <1>1, <1>2, <2>2 DEF Pays
  <2>3. QED
    BY <2>1, <2>2
<1>4. CASE t # s \/ GoesOn(s)
  <2>1. Active(stage[t]) /\ stage'[t].before = stage[t].before
    BY <1>4 DEF Moves, GoesOn, SameBooks
  <2>2. stage[t].before[d] <= usage[Ledger[t]][d]
    BY <1>1, <2>1 DEF BeganBelow
  <2>3. QED
    BY <1>2, <1>3, <2>1, <2>2
<1>5. CASE t = s /\ Begins(s)
  BY <1>2, <1>5 DEF Begins
<1>6. CASE t = s /\ Tells(s)
  BY <1>6 DEF Tells, Ends, Active
<1>7. QED
  BY <1>4, <1>5, <1>6 DEF Moves

(* A stage's own step keeps the counts covered.                              *)
LEMMA CoverStage ==
  ASSUME LedgerSound, LedgerSound', AttemptsTyped, BeganBelow, AllCovered, NEW s \in Callers, Moves(s), Pays(s)
  PROVE  AllCovered'
<1> SUFFICES ASSUME \A t \in Callers: ~stage'[t].uncounted, NEW l \in Ledgers, NEW d \in Dimensions,
                    d = "tokens" => l \notin lowered'
             PROVE  \/ usage'[l][d] <= Told(d)'
                    \/ \E t \in Callers: Ledger[t] = l /\ Active(stage'[t]) /\ stage'[t].before[d] <= Told(d)'
  BY DEF AllCovered, Followed, Covered, Active
<1>1. \A t \in Callers: ~stage[t].uncounted
  <2>1. stage'[s].uncounted = stage[s].uncounted \/ stage'[s].uncounted = TRUE
        \/ stage'[s].uncounted = (stage[s].uncounted \/ FALSE)
    BY DEF Moves, GoesOn, Begins, Tells, Ends, SameBooks, AttemptsTyped, Attempt
  <2>2. \A t \in Callers \ {s}: stage'[t] = stage[t]
    BY DEF Moves
  <2>3. QED
    BY <2>1, <2>2
<1>2. Followed(l, d) /\ Covered(l, d) /\ Ledger[s] \in Ledgers
  BY <1>1, GatewayAssumption DEF AllCovered, Followed, Pays
<1>3. /\ Told(d) \in Nat /\ Told(d)' \in Nat /\ Told(d) <= Told(d)'
      /\ (GoesOn(s) \/ Begins(s)) => Told(d)' = Told(d)
      /\ Ends(s, Delta(s), FALSE) => usage'[Ledger[s]][d] <= stage[s].before[d] + (Told(d)' - Told(d))
  <2>1. PICK n \in Nat: /\ Told(d) \in Nat /\ Told(d)' = Told(d) + n
                        /\ (GoesOn(s) \/ Begins(s)) => n = 0
                        /\ Ends(s, Delta(s), FALSE) => usage'[Ledger[s]][d] <= stage[s].before[d] + n
    BY TellsMore
  <2> DEFINE now == Told(d)
             later == Told(d)'
  <2>2. now \in Nat /\ later = now + n
    BY <2>1
  <2> HIDE DEF now, later
  <2>3. later \in Nat /\ now <= later /\ later - now = n /\ (n = 0 => later = now)
    BY <2>2
  <2>4. QED
    BY <2>1, <2>3 DEF now, later
<1>4. usage[l][d] \in Nat /\ usage'[l][d] \in Nat /\ stage[s].before[d] \in Nat
      /\ \A t \in Callers: stage[t].before[d] \in Nat
  <2>1. usage'[l] \in Usage
    BY DEF LedgerSound
  <2>2. QED
    BY <2>1, CountsAreNumbers
<1>5. ASSUME NEW t \in Callers, t # s, Ledger[t] = l, Active(stage[t]), stage[t].before[d] <= Told(d)
      PROVE  Active(stage'[t]) /\ stage'[t].before[d] <= Told(d)'
  <2>1. stage'[t] = stage[t]
    BY <1>5 DEF Moves
  <2>2. QED
    BY <1>3, <1>4, <1>5, <2>1
<1>6. CASE l # Ledger[s]
  <2>1. usage'[l] = usage[l]
    BY <1>6 DEF Pays
  <2>2. CASE usage[l][d] <= Told(d)
    BY <1>3, <1>4, <2>1, <2>2
  <2>3. CASE \E t \in Callers: Ledger[t] = l /\ Active(stage[t]) /\ stage[t].before[d] <= Told(d)
    BY <1>5, <1>6, <2>3
  <2>4. QED
    BY <1>2, <2>2, <2>3 DEF Covered
<1>7. CASE l = Ledger[s] /\ \E t \in Callers \ {s}:
                              Ledger[t] = l /\ Active(stage[t]) /\ stage[t].before[d] <= Told(d)
  BY <1>5, <1>7
<1>8. CASE l = Ledger[s] /\ Active(stage[s]) /\ stage[s].before[d] <= Told(d)
  <2>1. CASE GoesOn(s)
    BY <1>3, <1>8, <2>1 DEF GoesOn, SameBooks
  <2>2. CASE Begins(s)
    BY <1>8, <2>2 DEF Begins, Active
  <2>3. CASE Ends(s, Delta(s), FALSE)
    <3>1. usage'[l][d] <= stage[s].before[d] + (Told(d)' - Told(d))
      BY <1>3, <1>8, <2>3
    <3>2. QED
      BY <1>3, <1>4, <1>8, <3>1
  <2>4. ~Ends(s, NoUsage, TRUE)
    BY DEF Ends
  <2>5. QED
    BY <1>8, <2>1, <2>2, <2>3, <2>4 DEF Moves, Tells
<1>9. CASE l = Ledger[s] /\ usage[l][d] <= Told(d)
  <2>1. CASE Active(stage[s])
    <3>1. stage[s].before[d] <= usage[l][d]
      BY <1>2, <1>9, <2>1 DEF BeganBelow
    <3>2. stage[s].before[d] <= Told(d)
      BY <1>3, <1>4, <1>9, <3>1
    <3>3. QED
      BY <1>8, <1>9, <2>1, <3>2
  <2>2. CASE ~Active(stage[s])
    <3>1. UNCHANGED usage
      BY <2>2 DEF Pays
    <3>2. QED
      BY <1>3, <1>4, <1>9, <3>1
  <2>3. QED
    BY <2>1, <2>2
<1>10. QED
  BY <1>2, <1>6, <1>7, <1>8, <1>9 DEF Covered

(* Every step keeps it.                                                      *)
LEMMA CoverStep ==
  ASSUME LedgerSound, LedgerSound', AttemptsTyped, AttemptsTyped', CoverSound, [Next]_vars
  PROVE  CoverSound'
<1>1. BeganBelow /\ AllCovered /\ RowTold /\ stage \in [Callers -> Attempt]
  BY DEF CoverSound, AttemptsTyped
<1>2. ASSUME NEW s \in Callers, StageStep(s) \/ StoreFails(s) \/ TimeUp(s)
      PROVE  CoverSound'
  <2>1. Moves(s) /\ Pays(s) /\ UNCHANGED <<spent, joined>>
    BY <1>2, StageMoves DEF LedgerSound
  <2>2. ~joined
    BY <1>1, <2>1 DEF RowTold, Moves
  <2>3. QED
    BY <1>1, <2>1, <2>2, BeganStep, CoverStage DEF CoverSound, RowTold
<1>3. ASSUME UNCHANGED <<usage, stage, lowered>>
      PROVE  /\ BeganBelow' /\ AllCovered' /\ \A d \in Dimensions: Told(d)' = Told(d)
  <2>1. \A d \in Dimensions: Told(d)' = Told(d)
    BY <1>3 DEF Told
  <2>2. BeganBelow'
    BY <1>1, <1>3 DEF BeganBelow, Followed
  <2>3. AllCovered'
    BY <1>1, <1>3, <2>1 DEF AllCovered, Followed, Covered
  <2>4. QED
    BY <2>1, <2>2, <2>3
<1>4. CASE Cancel \/ Deadline \/ UNCHANGED vars
  <2>1. UNCHANGED <<spent, joined, stage>>
    BY <1>4, Elsewhere DEF Cancel, Deadline, vars, rowVars
  <2>2. RowTold'
    BY <1>1, <1>3, <1>4, <2>1, Elsewhere DEF RowTold
  <2>3. QED
    BY <1>3, <1>4, <2>2, Elsewhere DEF CoverSound
<1>5. CASE Join
  <2>1. /\ joined' = TRUE /\ spent = NoUsage /\ UNCHANGED stage
        /\ spent' = Added(spent, [d \in Dimensions |-> Told(d)])
        /\ \A s \in Callers: stage[s].at = "done"
    BY <1>1, <1>5 DEF Join, RowTold
  <2> DEFINE told == [d \in Dimensions |-> Told(d)]
  <2>2. told \in Usage /\ \A d \in Dimensions: told[d] = Told(d)
    <3>1. \A d \in Dimensions: Told(d) \in Nat
      BY <1>1, ToldType
    <3>2. \A d \in Dimensions: told[d] = Told(d)
      OBVIOUS
    <3>3. told = [d \in Dimensions |-> told[d]]
      OBVIOUS
    <3> HIDE DEF told
    <3>4. told \in Usage
      BY <3>1, <3>2, <3>3 DEF Usage, Dimensions
    <3>5. QED
      BY <3>2, <3>4
  <2>3. spent' = Added(NoUsage, told)
    BY <2>1
  <2> HIDE DEF told
  <2>4. \A d \in Dimensions: spent'[d] = Told(d)
    <3>1. \A d \in Dimensions: spent'[d] = NoUsage[d] + told[d] /\ NoUsage[d] = 0 /\ told[d] \in Nat
      BY <2>2, <2>3, CountsAreNumbers
    <3>2. QED
      BY <2>2, <3>1
  <2>5. spent' \in Usage
    BY <2>2, <2>3 DEF Added, Usage, NoUsage
  <2>6. RowTold'
    BY <1>3, <1>5, <2>1, <2>4, <2>5, Elsewhere DEF RowTold
  <2>7. QED
    BY <1>3, <1>5, <2>6, Elsewhere DEF CoverSound
<1>6. CASE Restart
  <2>1. /\ usage' = [l \in Ledgers |-> NoUsage] /\ UNCHANGED <<spent, joined>> /\ ~joined
        /\ \A s \in Callers: ~Active(stage'[s]) /\ (stage'[s] = stage[s] \/ stage'[s].uncounted = TRUE)
    BY <1>1, <1>6, RestartMoves DEF Restart, RowTold
  <2>2. ASSUME \A s \in Callers: ~stage'[s].uncounted, NEW l \in Ledgers, NEW d \in Dimensions
        PROVE  usage'[l][d] <= Told(d)'
    <3>1. usage'[l] = NoUsage /\ NoUsage[d] = 0
      BY <2>1, CountsAreNumbers
    <3>2. stage' = stage
      BY <1>1, <2>1, <2>2, RestartMoves, <1>6 DEF AttemptsTyped
    <3>3. Told(d)' = Told(d) /\ Told(d) \in Nat
      BY <1>1, <3>2, ToldType DEF Told
    <3>4. QED
      BY <3>1, <3>3
  <2>3. AllCovered'
    BY <2>2 DEF AllCovered, Covered
  <2>4. BeganBelow'
    BY <2>1 DEF BeganBelow
  <2>5. QED
    BY <1>1, <2>1, <2>3, <2>4 DEF CoverSound, RowTold
<1>7. QED
  BY <1>2, <1>4, <1>5, <1>6, StepKinds

(* At the beginning nothing is counted. *)
LEMMA CoverStarts == Init => CoverSound
<1> SUFFICES ASSUME Init PROVE CoverSound
  OBVIOUS
<1>1. AttemptsTyped /\ LedgerSound
  BY StagesStart, LedgerStarts
<1>2. /\ usage = [l \in Ledgers |-> NoUsage] /\ spent = NoUsage /\ joined = FALSE
      /\ \A s \in Callers: stage[s].at = "due"
  BY DEF Init, BudgetInit, FirstAttempt
<1>3. ASSUME NEW l \in Ledgers, NEW d \in Dimensions
      PROVE  usage[l][d] <= Told(d)
  <2>1. usage[l] = NoUsage /\ NoUsage[d] = 0 /\ Told(d) \in Nat
    BY <1>1, <1>2, CountsAreNumbers, ToldType DEF AttemptsTyped
  <2>2. QED
    BY <2>1
<1>4. BeganBelow
  BY <1>2 DEF BeganBelow, Active
<1>5. AllCovered
  BY <1>3 DEF AllCovered, Covered
<1>6. QED
  BY <1>2, <1>4, <1>5 DEF CoverSound, RowTold

(* When every attempt has told its usage, the row has counted every call the *)
(* ledger has, for any number of stages, attempts and restarts, and every    *)
(* token too where no answer cost less than its reservation (hybrid_stage.py,*)
(* usage_before and _usage_delta; budget.py, settle_model; manual.py,        *)
(* _sum_usage).                                                              *)
THEOREM UseIsCovered == Spec => []SpentCoversUse
<1>1. CoverSound => SpentCoversUse
  <2> SUFFICES ASSUME CoverSound, joined, \A s \in Callers: ~stage[s].uncounted,
                      NEW s \in Callers, NEW d \in Dimensions, d = "tokens" => Ledger[s] \notin lowered
               PROVE  usage[Ledger[s]][d] <= spent[d]
    BY DEF SpentCoversUse
  <2>1. Covered(Ledger[s], d) /\ \A t \in Callers: ~Active(stage[t])
    BY GatewayAssumption DEF CoverSound, AllCovered, Followed, RowTold, Active
  <2>2. spent[d] = Told(d)
    BY DEF CoverSound, RowTold
  <2>3. QED
    BY <2>1, <2>2 DEF Covered
<1>2. LedgerSound /\ AttemptsTyped /\ CoverSound /\ [Next]_vars
        => LedgerSound' /\ AttemptsTyped' /\ CoverSound'
  BY LedgerStep, AttemptsStep, CoverStep
<1>3. QED
  BY <1>1, <1>2, LedgerStarts, StagesStart, CoverStarts, PTL DEF Spec

-----------------------------------------------------------------------------
(* The rest of the state.                                                    *)
RestTyped ==
  /\ late \subseteq Ledgers /\ stopped \subseteq Ledgers /\ warned \subseteq Ledgers
  /\ lowered \subseteq Ledgers
  /\ joined \in BOOLEAN /\ restarts \in 0..MaxRestarts

LEMMA RestStep ==
  ASSUME LedgerSound, LedgerSound', AttemptsTyped, RestTyped, [Next]_vars
  PROVE  RestTyped'
<1>1. ASSUME NEW s \in Callers, StageStep(s) \/ StoreFails(s) \/ TimeUp(s)
      PROVE  RestTyped'
  <2>1. Pays(s) /\ UNCHANGED <<spent, joined, restarts>>
    BY <1>1, StageMoves DEF LedgerSound
  <2>2. UNCHANGED <<late, stopped, warned>>
    <3>1. CASE StageStep(s)
      BY <3>1 DEF StageStep, Enter, Profile, Reasoned, WriteEvidence, WriteRelation, Conclude, CallStep,
        GatewayStep, Misconfigured, Send, Answer, ProviderFails, WakesUp, callVars, gatewayVars, budgetVars
    <3>2. CASE StoreFails(s) \/ TimeUp(s)
      BY <3>2 DEF StoreFails, TimeUp, TaskCancelled, callVars, gatewayVars, budgetVars
    <3>3. QED
      BY <1>1, <3>1, <3>2
  <2>3. QED
    BY <2>1, <2>2 DEF RestTyped, Pays
<1>2. CASE Cancel \/ Join \/ UNCHANGED vars
  BY <1>2 DEF Cancel, Join, vars, callVars, gatewayVars, budgetVars, rowVars, RestTyped
<1>3. CASE Deadline
  BY <1>3 DEF Deadline, DeadlinePasses, gatewayVars, rowVars, RestTyped
<1>4. CASE Restart
  <2>1. restarts' = restarts + 1 /\ restarts < MaxRestarts /\ UNCHANGED <<late, joined>>
        /\ stopped' = {} /\ warned' = {} /\ lowered' = {}
    BY <1>4 DEF Restart
  <2>2. restarts' \in 0..MaxRestarts
    BY <2>1, StagesAssumption DEF RestTyped
  <2>3. QED
    BY <2>1, <2>2 DEF RestTyped
<1>5. QED
  BY <1>1, <1>2, <1>3, <1>4, StepKinds

(* Every variable keeps to its domain, a ledger's counts are never negative, *)
(* a finished stage has a status and a call of the model is there while its  *)
(* stage reasons (budget.py, settle_model; hybrid_stage.py, execute).        *)
THEOREM StageTypes == Spec => []StageTypeOK
<1>1. LedgerSound /\ AttemptsTyped /\ EvidenceSound /\ CoverSound /\ RestTyped => StageTypeOK
  BY CountsAreNumbers
  DEF StageTypeOK, LedgerSound, CallsTyped, AttemptsTyped, EvidenceSound, CoverSound, RowTold, RestTyped
<1>2. Init => RestTyped
  <2>1. 0 \in 0..MaxRestarts
    BY StagesAssumption
  <2>2. QED
    BY <2>1 DEF Init, BudgetInit, GatewayInit, RestTyped
<1>3. LedgerSound /\ AttemptsTyped /\ EvidenceSound /\ CoverSound /\ RestTyped /\ [Next]_vars
        => LedgerSound' /\ AttemptsTyped' /\ EvidenceSound' /\ CoverSound' /\ RestTyped'
  BY LedgerStep, AttemptsStep, EvidenceStep, CoverStep, RestStep
<1>4. QED
  BY <1>1, <1>2, <1>3, LedgerStarts, StagesStart, CoverStarts, PTL DEF Spec
=============================================================================
