-------------------------- MODULE YamuxSessionProofs --------------------------
(***************************************************************************)
(* Proofs about YamuxSession, for every set of streams, every gate         *)
(* capacity and every set of close reasons: Session.Done covers the        *)
(* streams, the registry is complete, and the adapter implements           *)
(* TunnelContract.                                                         *)
(***************************************************************************)
EXTENDS YamuxSession, FiniteSetTheorems, TLAPS

-----------------------------------------------------------------------------
(* The inductive invariant                                                 *)

\* Types, without the bound of the gate.
Types ==
    /\ info \in Cause \cup {NoCause}
    /\ finished \in BOOLEAN /\ done \in BOOLEAN /\ rawClosed \in BOOLEAN
    /\ children \subseteq Stream /\ ending \subseteq Stream
    /\ pc \in [Stream -> {"idle", "gate", "opening", "abandoned", "open",
                          "accepting", "accepted", "failed"}]
    /\ result \in [Stream -> {"none", "stream", "error"}]
    /\ held \subseteq Stream
    /\ localClosed \subseteq held /\ remoteDone \subseteq held /\ timer \subseteq held
    /\ completing \in [Stream -> {"no", "slot", "done", "over"}]

\* A stream object exists for exactly the calls that returned one.
HeldStreams ==
    \A st \in Stream :
       /\ st \in held <=> pc[st] \in {"open", "accepted"}
       /\ completing[st] # "no" => st \in held
       /\ st \in children \cup ending => st \in held

\* finish runs on a terminal session, empties the registry, and is followed by
\* Done only when the children it took over are through.
FinishOrder ==
    /\ finished => terminal /\ children = {}
    /\ ~finished => ending = {} /\ ~done
    /\ done => \A st \in ending : completing[st] = "over"

\* An open is abandoned only on a terminal session.
AbandonedTerminal == \A st \in Stream : pc[st] = "abandoned" => terminal

IInv == Types /\ HeldStreams /\ FinishOrder /\ AbandonedTerminal /\ RegistryComplete

\* IInv holds initially.
LEMMA InitIInv == Init => IInv
  BY DEF Init, IInv, Types, HeldStreams, FinishOrder, AbandonedTerminal,
         RegistryComplete, terminal, StreamDone

\* The claims of callers, of the connection observer and of an abandoned open.
LEMMA ClaimStep ==
  ASSUME IInv, NEW c \in Cause, Claim(c) \/ RawClose
  PROVE  IInv'
<1> USE DEF IInv, Types, HeldStreams, FinishOrder, AbandonedTerminal,
            RegistryComplete, terminal, StreamDone, stateVars, streamVars
<1>1. CASE Claim(c) BY <1>1, CausesAssumption DEF CausesAssumption, Claim, claim
<1>2. CASE RawClose BY <1>2 DEF RawClose
<1>3. QED
  BY <1>1, <1>2

\* The two halves of finish.
LEMMA FinishStep ==
  ASSUME IInv, FinishBegin \/ FinishEnd
  PROVE  IInv'
<1>1. CASE FinishBegin
  BY <1>1, CausesAssumption
  DEF IInv, Types, HeldStreams, FinishOrder, AbandonedTerminal, RegistryComplete,
      terminal, StreamDone, FinishBegin, finish, streamVars
<1>2. CASE FinishEnd
  BY <1>2
  DEF IInv, Types, HeldStreams, FinishOrder, AbandonedTerminal, RegistryComplete,
      terminal, StreamDone, FinishEnd, streamVars
<1>3. QED
  BY <1>1, <1>2

\* The steps of OpenStream and AcceptStream that register nothing and leave the
\* session alone.
LEMMA OpenQuietStep ==
  ASSUME IInv, NEW st \in Stream, NEW res \in {"stream", "error"},
         \/ OpenBegin(st) \/ TakeSlot(st) \/ GiveUpSlot(st) \/ RawOpen(st, res)
         \/ OpenFailed(st) \/ OpenSessionDone(st) \/ OpenRefused(st)
         \/ Accept(st) \/ AcceptRefused(st)
  PROVE  IInv'
<1> USE DEF IInv, Types, HeldStreams, FinishOrder, AbandonedTerminal,
            RegistryComplete, terminal, StreamDone, stateVars, streamVars
<1>1. CASE OpenBegin(st) BY <1>1 DEF OpenBegin
<1>2. CASE TakeSlot(st) BY <1>2 DEF TakeSlot
<1>3. CASE GiveUpSlot(st) BY <1>3 DEF GiveUpSlot
<1>4. CASE RawOpen(st, res) BY <1>4 DEF RawOpen
<1>5. CASE OpenFailed(st) BY <1>5 DEF OpenFailed
<1>6. CASE OpenSessionDone(st) BY <1>6 DEF OpenSessionDone
<1>7. CASE OpenRefused(st) BY <1>7 DEF OpenRefused
<1>8. CASE Accept(st) BY <1>8 DEF Accept
<1>9. CASE AcceptRefused(st) BY <1>9 DEF AcceptRefused
<1>10. QED
  BY <1>1, <1>2, <1>3, <1>4, <1>5, <1>6, <1>7, <1>8, <1>9

\* An open given up while yamux is still opening.
LEMMA AbandonStep ==
  ASSUME IInv, NEW st \in Stream, OpenAbandon(st) \/ OpenAbandoned(st)
  PROVE  IInv'
<1> USE CausesAssumption
    DEF IInv, Types, HeldStreams, FinishOrder, AbandonedTerminal,
        RegistryComplete, terminal, StreamDone, stateVars, streamVars
<1>1. CASE OpenAbandon(st) BY <1>1 DEF OpenAbandon, claim
<1>2. CASE OpenAbandoned(st) BY <1>2 DEF OpenAbandoned, finish
<1>3. QED
  BY <1>1, <1>2

\* A stream is registered: the session is not terminal, so finish has not run.
LEMMA RegisterStep ==
  ASSUME IInv, NEW st \in Stream, OpenRegister(st) \/ AcceptRegister(st)
  PROVE  IInv'
<1> USE DEF IInv, Types, HeldStreams, FinishOrder, AbandonedTerminal,
            RegistryComplete, terminal, StreamDone, stateVars, streamVars
<1>1. CASE OpenRegister(st) BY <1>1 DEF OpenRegister
<1>2. CASE AcceptRegister(st) BY <1>2 DEF AcceptRegister
<1>3. QED
  BY <1>1, <1>2

\* What a stream does on its own, up to and through complete.
LEMMA StreamStep ==
  ASSUME IInv, NEW st \in Stream,
         \/ CloseLocal(st) \/ RemoteEnd(st)
         \/ CompleteBegin(st) \/ CompleteDone(st) \/ CompleteEnd(st)
  PROVE  IInv'
<1> USE DEF IInv, Types, HeldStreams, FinishOrder, AbandonedTerminal,
            RegistryComplete, terminal, StreamDone, stateVars, streamVars
<1>1. CASE CloseLocal(st) BY <1>1 DEF CloseLocal
<1>2. CASE RemoteEnd(st) BY <1>2 DEF RemoteEnd
<1>3. CASE CompleteBegin(st) BY <1>3 DEF CompleteBegin
<1>4. CASE CompleteDone(st) BY <1>4 DEF CompleteDone
<1>5. CASE CompleteEnd(st) BY <1>5 DEF CompleteEnd
<1>6. QED
  BY <1>1, <1>2, <1>3, <1>4, <1>5

\* Every step preserves IInv.
LEMMA NextIInv == IInv /\ [Next]_vars => IInv'
<1> SUFFICES ASSUME IInv, [Next]_vars PROVE IInv'
  OBVIOUS
<1>1. CASE UNCHANGED vars
  BY <1>1 DEF vars, IInv, Types, HeldStreams, FinishOrder, AbandonedTerminal,
              RegistryComplete, terminal, StreamDone
<1>2. CASE Progress
  BY <1>2, FinishStep, OpenQuietStep, AbandonStep, RegisterStep, StreamStep
  DEF Progress
<1>3. CASE Environment
  BY <1>3, ClaimStep, OpenQuietStep, AbandonStep, RegisterStep, StreamStep,
     CausesAssumption
  DEF Environment
<1>4. QED
  BY <1>1, <1>2, <1>3 DEF Next

\* IInv is an invariant of the adapter.
THEOREM IInvHolds == Spec => []IInv
<1>1. QED
  BY InitIInv, NextIInv, PTL DEF Spec

-----------------------------------------------------------------------------
(* What the adapter promises                                               *)

\* finish misses no stream: whatever is not Done is registered or taken over.
THEOREM RegistryCompleteHolds == Spec => []RegistryComplete
<1>1. IInv => RegistryComplete
  BY DEF IInv
<1>2. QED
  BY <1>1, IInvHolds, PTL

\* Session.Done is observable only after the Done of every stream handed out.
THEOREM DoneCoversStreamsHolds == Spec => []DoneCoversStreams
<1>1. IInv => DoneCoversStreams
  BY DEF IInv, Types, HeldStreams, FinishOrder, RegistryComplete,
         DoneCoversStreams, StreamDone
<1>2. QED
  BY <1>1, IInvHolds, PTL

-----------------------------------------------------------------------------
(* The open gate                                                           *)

\* The owners of the gate's slots are finitely many.
LEMMA OwnersFinite == IsFiniteSet(SlotOwners) /\ Cardinality(SlotOwners) \in Nat
  BY FiniteStreams, FS_Subset, FS_CardinalityType DEF SlotOwners, FiniteStreams

\* A step that keeps the gate and its owners.
LEMMA GateKept ==
  ASSUME GateBalanced, gate' = gate, SlotOwners' = SlotOwners
  PROVE  GateBalanced'
  BY DEF GateBalanced

\* A step by which one owner gives its slot back.
LEMMA GateReturned ==
  ASSUME GateBalanced, NEW st \in SlotOwners, gate' = gate - 1,
         SlotOwners' = SlotOwners \ {st}
  PROVE  GateBalanced'
<1>1. Cardinality(SlotOwners \ {st}) = Cardinality(SlotOwners) - 1
  BY OwnersFinite, FS_RemoveElement
<1>2. QED
  BY <1>1 DEF GateBalanced

\* A step by which a call takes a slot.
LEMMA GateTaken ==
  ASSUME GateBalanced, NEW st \in Stream, st \notin SlotOwners, gate' = gate + 1,
         SlotOwners' = SlotOwners \cup {st}
  PROVE  GateBalanced'
<1>1. Cardinality(SlotOwners \cup {st}) = Cardinality(SlotOwners) + 1
  BY OwnersFinite, FS_AddElement
<1>2. QED
  BY <1>1 DEF GateBalanced

\* Every step keeps the gate balanced.
LEMMA NextGate == IInv /\ GateBalanced /\ [Next]_vars => GateBalanced'
<1> SUFFICES ASSUME IInv, GateBalanced, [Next]_vars PROVE GateBalanced'
  OBVIOUS
<1> USE DEF IInv, Types, HeldStreams, stateVars, streamVars, SlotOwners
<1>1. CASE UNCHANGED vars
  BY <1>1, GateKept DEF vars
<1>2. CASE FinishBegin \/ FinishEnd \/ RawClose
  BY <1>2, GateKept DEF FinishBegin, FinishEnd, RawClose
<1>3. ASSUME NEW c \in Cause, Claim(c) PROVE GateBalanced'
  BY <1>3, GateKept DEF Claim
<1>4. ASSUME NEW st \in Stream, TakeSlot(st) PROVE GateBalanced'
  <2>1. st \notin SlotOwners
    BY <1>4 DEF TakeSlot
  <2>2. SlotOwners' = SlotOwners \cup {st}
    BY <1>4 DEF TakeSlot
  <2>3. QED
    BY <1>4, <2>1, <2>2, GateTaken DEF TakeSlot
<1>5. ASSUME NEW st \in Stream,
             \/ OpenFailed(st) \/ OpenSessionDone(st)
             \/ OpenRefused(st) \/ OpenAbandoned(st)
      PROVE  GateBalanced'
  <2>1. /\ pc[st] \in {"opening", "abandoned"} /\ gate' = gate - 1
        /\ pc' = [pc EXCEPT ![st] = "failed"] /\ completing' = completing
    BY <1>5 DEF OpenFailed, OpenSessionDone, OpenRefused, OpenAbandoned
  <2>2. st \in SlotOwners /\ SlotOwners' = SlotOwners \ {st}
    BY <2>1
  <2>3. QED
    BY <2>1, <2>2, GateReturned
<1>6. ASSUME NEW st \in Stream, CompleteBegin(st) PROVE GateBalanced'
  <2>1. CASE pc[st] = "open"
    <3>1. st \in SlotOwners /\ SlotOwners' = SlotOwners \ {st}
      BY <1>6, <2>1 DEF CompleteBegin
    <3>2. QED
      BY <1>6, <2>1, <3>1, GateReturned DEF CompleteBegin
  <2>2. CASE pc[st] # "open"
    <3>1. SlotOwners' = SlotOwners
      BY <1>6, <2>2 DEF CompleteBegin
    <3>2. QED
      BY <1>6, <2>2, <3>1, GateKept DEF CompleteBegin
  <2>3. QED
    BY <2>1, <2>2
<1>7. ASSUME NEW st \in Stream, OpenRegister(st) \/ OpenAbandon(st)
      PROVE  GateBalanced'
  <2>1. gate' = gate /\ SlotOwners' = SlotOwners
    BY <1>7 DEF OpenRegister, OpenAbandon
  <2>2. QED
    BY <2>1, GateKept
<1>8. ASSUME NEW st \in Stream, OpenBegin(st) \/ GiveUpSlot(st) \/ Accept(st)
                            \/ AcceptRegister(st) \/ AcceptRefused(st)
      PROVE  GateBalanced'
  <2>1. gate' = gate /\ SlotOwners' = SlotOwners
    BY <1>8 DEF OpenBegin, GiveUpSlot, Accept, AcceptRegister, AcceptRefused
  <2>2. QED
    BY <2>1, GateKept
<1>9. ASSUME NEW st \in Stream,
             \/ \E res \in {"stream", "error"} : RawOpen(st, res)
             \/ CloseLocal(st) \/ RemoteEnd(st) \/ CompleteDone(st) \/ CompleteEnd(st)
      PROVE  GateBalanced'
  <2>1. gate' = gate /\ SlotOwners' = SlotOwners
    BY <1>9 DEF RawOpen, CloseLocal, RemoteEnd, CompleteDone, CompleteEnd
  <2>2. QED
    BY <2>1, GateKept
<1>10. QED
  BY <1>1, <1>2, <1>3, <1>4, <1>5, <1>6, <1>7, <1>8, <1>9
  DEF Next, Progress, Environment

\* The open gate counts exactly its owners.
THEOREM GateBalancedHolds == Spec => []GateBalanced
<1>1. Init => GateBalanced
  <2>1. ASSUME Init PROVE SlotOwners = {}
    BY <2>1 DEF Init, SlotOwners
  <2>2. QED
    BY <2>1, FS_EmptySet DEF Init, GateBalanced
<1>2. QED
  BY <1>1, NextGate, IInvHolds, PTL DEF Spec

\* The gate never exceeds its capacity, and every variable has its type.
THEOREM TypeCorrect == Spec => []TypeOK
<1>1. Init => gate \in 0..GateLimit
  BY GateAssumption DEF Init, GateAssumption
<1>2. GateBalanced => gate \in Nat
  BY OwnersFinite DEF GateBalanced
<1>3. gate \in 0..GateLimit /\ (gate \in Nat)' /\ [Next]_vars
      => (gate \in 0..GateLimit)'
  <2> SUFFICES ASSUME gate \in 0..GateLimit, gate' \in Nat, [Next]_vars
               PROVE  gate' \in 0..GateLimit
    OBVIOUS
  <2>1. \/ gate' = gate \/ gate' = gate - 1
        \/ gate < GateLimit /\ gate' = gate + 1
    BY DEF Next, Progress, Environment, FinishBegin, FinishEnd, Claim, RawClose,
           OpenBegin, TakeSlot, GiveUpSlot, RawOpen, OpenFailed, OpenSessionDone,
           OpenRegister, OpenRefused, OpenAbandon, OpenAbandoned, Accept,
           AcceptRegister, AcceptRefused,
           CloseLocal, RemoteEnd, CompleteBegin, CompleteDone, CompleteEnd, vars
  <2>2. QED
    BY <2>1, GateAssumption DEF GateAssumption
<1>4. IInv /\ gate \in 0..GateLimit => TypeOK
  BY DEF IInv, Types, TypeOK
<1>5. QED
  BY <1>1, <1>2, <1>3, <1>4, IInvHolds, GateBalancedHolds, PTL DEF Spec

-----------------------------------------------------------------------------
(* The adapter implements the contract                                     *)

\* The initial state of the adapter is one of the contract.
LEMMA InitRefines == Init => C!ContractInit
  BY DEF Init, C!ContractInit, StreamDone

\* A step that changes no cause, no stream's Done and no failed call, and does
\* not publish Done, is invisible to the contract.
LEMMA Invisible ==
  ASSUME info' = info, done' = done, held' = held, completing' = completing,
         \A x \in Stream : pc'[x] = "failed" <=> pc[x] = "failed"
  PROVE  UNCHANGED C!contractVars
  BY DEF C!contractVars, StreamDone

\* A step that only makes the call st fail is a Refuse.
LEMMA Refusing ==
  ASSUME IInv, NEW st \in Stream, pc[st] \notin {"open", "accepted", "failed"},
         info' = info, done' = done, held' = held, completing' = completing,
         pc' = [pc EXCEPT ![st] = "failed"]
  PROVE  C!Refuse(st)
  BY DEF C!Refuse, StreamDone, IInv, Types, HeldStreams

\* A step that only decides the cause is a Terminate.
LEMMA Terminating ==
  ASSUME info = NoCause, info' \in Cause,
         done' = done, held' = held, completing' = completing,
         \A x \in Stream : pc'[x] = "failed" <=> pc[x] = "failed"
  PROVE  C!Terminate
  BY DEF C!Terminate, StreamDone

\* Claims and the raw close.
LEMMA ClaimRefines ==
  ASSUME IInv, NEW c \in Cause, Claim(c) \/ RawClose
  PROVE  C!Terminate \/ UNCHANGED C!contractVars
<1>1. CASE Claim(c)
  BY <1>1, Terminating, Invisible DEF Claim, claim, terminal, streamVars
<1>2. CASE RawClose
  BY <1>2, Invisible DEF RawClose, stateVars, streamVars
<1>3. QED
  BY <1>1, <1>2

\* finish decides the cause if nobody did, and publishes Done last.
LEMMA FinishRefines ==
  ASSUME IInv, FinishBegin \/ FinishEnd
  PROVE  C!Terminate \/ C!Publish \/ UNCHANGED C!contractVars
<1>1. CASE FinishBegin
  BY <1>1, Terminating, Invisible, CausesAssumption
  DEF FinishBegin, finish, terminal, streamVars, CausesAssumption
<1>2. CASE FinishEnd
  <2>1. info # NoCause /\ ~done /\ done' = TRUE
    BY <1>2 DEF FinishEnd, IInv, FinishOrder, terminal
  <2>2. {st \in held : ~StreamDone(st)} = {}
    BY <1>2 DEF FinishEnd, IInv, FinishOrder, RegistryComplete, StreamDone, Types
  <2>3. info' = info /\ held' = held /\ completing' = completing /\ pc' = pc
    BY <1>2 DEF FinishEnd, streamVars
  <2>4. QED
    BY <2>1, <2>2, <2>3 DEF C!Publish, StreamDone
<1>3. QED
  BY <1>1, <1>2

\* OpenStream and AcceptStream, up to the point where they return a stream.
LEMMA OpenRefines ==
  ASSUME IInv, NEW st \in Stream, NEW res \in {"stream", "error"},
         \/ OpenBegin(st) \/ TakeSlot(st) \/ GiveUpSlot(st) \/ RawOpen(st, res)
         \/ OpenFailed(st) \/ OpenSessionDone(st) \/ OpenRefused(st)
         \/ Accept(st) \/ AcceptRefused(st)
  PROVE  C!Refuse(st) \/ UNCHANGED C!contractVars
<1> USE DEF stateVars, streamVars
<1>1. CASE OpenBegin(st)
  <2>1. CASE IsClosed BY <1>1, <2>1, Refusing DEF OpenBegin
  <2>2. CASE ~IsClosed
    <3>1. \A x \in Stream : pc'[x] = "failed" <=> pc[x] = "failed"
      BY <1>1, <2>2 DEF OpenBegin, IInv, Types
    <3>2. QED
      BY <1>1, <3>1, Invisible DEF OpenBegin
  <2>3. QED
    BY <2>1, <2>2
<1>2. CASE TakeSlot(st)
  <2>1. \A x \in Stream : pc'[x] = "failed" <=> pc[x] = "failed"
    BY <1>2 DEF TakeSlot, IInv, Types
  <2>2. QED
    BY <1>2, <2>1, Invisible DEF TakeSlot
<1>3. CASE GiveUpSlot(st) BY <1>3, Refusing DEF GiveUpSlot
<1>4. CASE RawOpen(st, res) BY <1>4, Invisible DEF RawOpen
<1>5. CASE OpenFailed(st) BY <1>5, Refusing DEF OpenFailed
<1>6. CASE OpenSessionDone(st) BY <1>6, Refusing DEF OpenSessionDone
<1>7. CASE OpenRefused(st) BY <1>7, Refusing DEF OpenRefused
<1>8. CASE Accept(st)
  <2>1. \A x \in Stream : pc'[x] = "failed" <=> pc[x] = "failed"
    BY <1>8 DEF Accept, IInv, Types
  <2>2. QED
    BY <1>8, <2>1, Invisible DEF Accept
<1>9. CASE AcceptRefused(st) BY <1>9, Refusing DEF AcceptRefused
<1>10. QED
  BY <1>1, <1>2, <1>3, <1>4, <1>5, <1>6, <1>7, <1>8, <1>9

\* An abandoned open claims the session, and later fails.
LEMMA AbandonRefines ==
  ASSUME IInv, NEW st \in Stream, OpenAbandon(st) \/ OpenAbandoned(st)
  PROVE  C!Terminate \/ C!Refuse(st) \/ UNCHANGED C!contractVars
<1>1. CASE OpenAbandon(st)
  <2>1. \A x \in Stream : pc'[x] = "failed" <=> pc[x] = "failed"
    BY <1>1 DEF OpenAbandon, IInv, Types
  <2>2. QED
    BY <1>1, <2>1, Terminating, Invisible, CausesAssumption
    DEF OpenAbandon, claim, terminal, streamVars, CausesAssumption
<1>2. CASE OpenAbandoned(st)
  <2>1. info' = info
    BY <1>2 DEF OpenAbandoned, finish, IInv, AbandonedTerminal
  <2>2. QED
    BY <1>2, <2>1, Refusing DEF OpenAbandoned, streamVars
<1>3. QED
  BY <1>1, <1>2

\* A stream is handed out only on a session that is not terminal.
LEMMA RegisterRefines ==
  ASSUME IInv, NEW st \in Stream, OpenRegister(st) \/ AcceptRegister(st)
  PROVE  C!HandOut(st)
<1> USE DEF stateVars, streamVars
<1>1. CASE OpenRegister(st)
  BY <1>1 DEF OpenRegister, C!HandOut, StreamDone, IInv, Types, HeldStreams, terminal
<1>2. CASE AcceptRegister(st)
  BY <1>2 DEF AcceptRegister, C!HandOut, StreamDone, IInv, Types, HeldStreams, terminal
<1>3. QED
  BY <1>1, <1>2

\* A stream completes when complete closes its Done channel.
LEMMA StreamRefines ==
  ASSUME IInv, NEW st \in Stream,
         \/ CloseLocal(st) \/ RemoteEnd(st)
         \/ CompleteBegin(st) \/ CompleteDone(st) \/ CompleteEnd(st)
  PROVE  C!Complete(st) \/ UNCHANGED C!contractVars
<1> USE DEF stateVars, streamVars
<1>1. CASE CloseLocal(st) BY <1>1, Invisible DEF CloseLocal
<1>2. CASE RemoteEnd(st) BY <1>2, Invisible DEF RemoteEnd
<1>3. CASE CompleteBegin(st)
  BY <1>3 DEF CompleteBegin, C!contractVars, StreamDone, IInv, Types
<1>4. CASE CompleteDone(st)
  BY <1>4 DEF CompleteDone, C!Complete, StreamDone, IInv, Types, HeldStreams
<1>5. CASE CompleteEnd(st)
  BY <1>5 DEF CompleteEnd, C!contractVars, StreamDone, IInv, Types
<1>6. QED
  BY <1>1, <1>2, <1>3, <1>4, <1>5

\* Every step of the adapter is a step of the contract or a stutter.
LEMMA NextRefines == IInv /\ [Next]_vars => [C!ContractNext]_(C!contractVars)
<1> SUFFICES ASSUME IInv, [Next]_vars
             PROVE  C!ContractNext \/ UNCHANGED C!contractVars
  OBVIOUS
<1> USE DEF C!ContractNext
<1>1. CASE UNCHANGED vars
  BY <1>1 DEF vars, C!contractVars, StreamDone
<1>2. CASE Progress
  BY <1>2, FinishRefines, OpenRefines, AbandonRefines, RegisterRefines, StreamRefines
  DEF Progress
<1>3. CASE Environment
  <2>1. CASE RawClose \/ \E c \in Cause \ {Fallback, Canceled} : Claim(c)
    BY <2>1, ClaimRefines, CausesAssumption DEF CausesAssumption
  <2>2. ASSUME NEW st \in Stream,
               \/ OpenBegin(st) \/ TakeSlot(st) \/ GiveUpSlot(st)
               \/ Accept(st) \/ \E res \in {"stream", "error"} : RawOpen(st, res)
        PROVE  C!ContractNext \/ UNCHANGED C!contractVars
    BY <2>2, OpenRefines
  <2>3. ASSUME NEW st \in Stream,
               OpenAbandon(st) \/ CloseLocal(st) \/ RemoteEnd(st)
        PROVE  C!ContractNext \/ UNCHANGED C!contractVars
    BY <2>3, AbandonRefines, StreamRefines
  <2>4. QED
    BY <1>3, <2>1, <2>2, <2>3 DEF Environment
<1>4. QED
  BY <1>1, <1>2, <1>3 DEF Next

\* The yamux adapter implements the session contract the edge relies on.
THEOREM ImplementsContractHolds == Spec => ImplementsContract
<1>1. QED
  BY InitRefines, NextRefines, IInvHolds, PTL
  DEF Spec, ImplementsContract, C!Contract

\* The open gate, the registry of children and the two levels of Done agree,
\* in every interleaving of open, close, completion and teardown, for any set
\* of streams and any gate limit.
THEOREM SessionSoundHolds == Spec => []SessionSound
<1>1. QED
  BY TypeCorrect, GateBalancedHolds, DoneCoversStreamsHolds,
     RegistryCompleteHolds, PTL DEF SessionSound
=============================================================================
