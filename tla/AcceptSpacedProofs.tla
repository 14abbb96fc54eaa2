------------------------- MODULE AcceptSpacedProofs -------------------------
(***************************************************************************)
(* What AcceptSpaced amounts to without lag: AcceptOnce.                   *)
(***************************************************************************)
EXTENDS AcceptSpaced, TLAPS

\* Times are integers, the skew and the lag lengths of time.
Span == Times \subseteq Int /\ Skew \in Nat /\ Lag \in Nat

\* The executions as AcceptOnce sees them: which task ran which request.
Runs == {<<e.task, e.nonce>> : e \in executions}
AO == INSTANCE AcceptOnce WITH issued <- DOMAIN stamps, executions <- Runs

\* An execution is of an issued request, near its stamp, and of its own task;
\* those of one request are spaced.
SpacedInv ==
    /\ \A n \in DOMAIN stamps : n \in Nonces /\ stamps[n] \in Int
    /\ executions \subseteq [task : Tasks, nonce : DOMAIN stamps, at : Int]
    /\ \A e \in executions : Distance(e.at, stamps[e.nonce]) <= Skew
    /\ \A e, f \in executions : e # f =>
          /\ e.task # f.task
          /\ e.nonce = f.nonce => Distance(e.at, f.at) + Lag > 2 * Skew

\* Issue keeps what was issued; Execute adds one execution that is spaced from
\* the others by its guard.
LEMMA SpacedStep ==
    ASSUME Span
    PROVE  SpacedInv /\ [Next]_<<stamps, executions>> => SpacedInv'
  <1> SUFFICES ASSUME SpacedInv, [Next]_<<stamps, executions>>
               PROVE  SpacedInv'
    OBVIOUS
  <1>1. ASSUME NEW n \in Nonces, NEW t \in Times, Issue(n, t) PROVE SpacedInv'
    <2>1. /\ DOMAIN stamps' = DOMAIN stamps \cup {n} /\ stamps'[n] = t
          /\ \A m \in DOMAIN stamps : stamps'[m] = stamps[m]
      BY <1>1 DEF Issue
    <2>2. executions' = executions
      BY <1>1 DEF Issue
    <2>3. \A e \in executions : e.nonce \in DOMAIN stamps
      BY DEF SpacedInv
    <2>4. QED
      BY <2>1, <2>2, <2>3 DEF Span, SpacedInv
  <1>2. ASSUME NEW k \in Tasks, NEW n \in Nonces, NEW t \in Times, Execute(k, n, t)
        PROVE  SpacedInv'
    <2> DEFINE new == [task |-> k, nonce |-> n, at |-> t]
    <2>1. /\ n \in DOMAIN stamps /\ Distance(t, stamps[n]) <= Skew
          /\ executions' = executions \cup {new} /\ stamps' = stamps
      BY <1>2 DEF Execute
    <2>2. t \in Int
      BY DEF Span
    <2>3. \A e \in executions :
              /\ e.task # k
              /\ e.nonce = n => /\ Distance(e.at, t) + Lag > 2 * Skew
                                /\ Distance(t, e.at) + Lag > 2 * Skew
      <3>1. \A e \in executions : e.at \in Int
        BY DEF SpacedInv
      <3>2. QED
        BY <1>2, <2>2, <3>1 DEF Span, Execute, Distance
    <2>4. new.task = k /\ new.nonce = n /\ new.at = t
      OBVIOUS
    <2>5. new \in [task : Tasks, nonce : DOMAIN stamps, at : Int]
      BY <2>1, <2>2
    <2> HIDE DEF new
    <2>6. executions' \subseteq [task : Tasks, nonce : DOMAIN stamps', at : Int]
      BY <2>1, <2>5 DEF SpacedInv
    <2>7. \A e \in executions' : Distance(e.at, stamps'[e.nonce]) <= Skew
      BY <2>1, <2>4 DEF SpacedInv
    <2>8. \A e, f \in executions' : e # f =>
              /\ e.task # f.task
              /\ e.nonce = f.nonce => Distance(e.at, f.at) + Lag > 2 * Skew
      BY <2>1, <2>3, <2>4 DEF SpacedInv
    <2>9. QED
      BY <2>1, <2>6, <2>7, <2>8 DEF SpacedInv
  <1>3. CASE UNCHANGED <<stamps, executions>>
    BY <1>3 DEF SpacedInv
  <1>4. QED
    BY <1>1, <1>2, <1>3 DEF Next

\* Executions of one request are spaced, and all near its one stamp.
THEOREM Spaced == ASSUME Span PROVE Spec => []SpacedInv
  <1>1. Init => SpacedInv
    BY DEF Init, SpacedInv
  <1>2. QED
    BY <1>1, SpacedStep, PTL DEF Spec

\* Without lag the spacing is wider than the window: AcceptOnce.
THEOREM SpacedIsOnce == ASSUME Span, Lag = 0 PROVE Spec => AO!Spec
  <1>1. Init => AO!Init
    BY DEF Init, AO!Init, Runs
  <1>2. SpacedInv /\ [Next]_<<stamps, executions>>
            => [AO!Next]_<<DOMAIN stamps, Runs>>
    <2> SUFFICES ASSUME SpacedInv, [Next]_<<stamps, executions>>
                 PROVE  AO!Next \/ UNCHANGED <<DOMAIN stamps, Runs>>
      OBVIOUS
    <2>1. ASSUME NEW n \in Nonces, NEW t \in Times, Issue(n, t) PROVE AO!Issue(n)
      BY <2>1 DEF Issue, AO!Issue, Runs
    <2>2. ASSUME NEW k \in Tasks, NEW n \in Nonces, NEW t \in Times,
                 Execute(k, n, t)
          PROVE  AO!Execute(k, n)
      <3>1. ASSUME NEW e \in executions, e.nonce = n PROVE FALSE
        <4>1. /\ e.at \in Int /\ t \in Int /\ stamps[n] \in Int
              /\ Distance(e.at, stamps[n]) <= Skew
          BY <3>1 DEF Span, SpacedInv
        <4>2. Distance(t, stamps[n]) <= Skew /\ Distance(e.at, t) + Lag > 2 * Skew
          BY <2>2, <3>1 DEF Execute
        <4>3. QED
          BY <4>1, <4>2 DEF Span, Distance
      <3>2. \A e \in executions : e.task # k /\ e.nonce # n
        BY <2>2, <3>1 DEF Execute
      <3>3. \A r \in Runs : r[1] # k /\ r[2] # n
        BY <3>2 DEF Runs
      <3>4. Runs' = Runs \cup {<<k, n>>}
        <4> DEFINE new == [task |-> k, nonce |-> n, at |-> t]
        <4>1. executions' = executions \cup {new}
          BY <2>2 DEF Execute
        <4>2. <<new.task, new.nonce>> = <<k, n>>
          OBVIOUS
        <4> HIDE DEF new
        <4>3. Runs' = {<<e.task, e.nonce>> : e \in executions \cup {new}}
          BY <4>1 DEF Runs
        <4>4. QED
          BY <4>2, <4>3, Zenon DEF Runs
      <3>5. QED
        BY <2>2, <3>3, <3>4 DEF Execute, AO!Execute
    <2>3. CASE UNCHANGED <<stamps, executions>>
      BY <2>3 DEF Runs
    <2>4. QED
      BY <2>1, <2>2, <2>3 DEF Next, AO!Next
  <1>3. QED
    BY <1>1, <1>2, Spaced, PTL DEF Spec, AO!Spec

=============================================================================
