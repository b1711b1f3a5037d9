--------------------------- MODULE HandoffProofs ---------------------------
(***************************************************************************)
(* The safety properties of Handoff, for every number of conversations,    *)
(* sessions, workers and agents: IInv is inductive and implies them, and   *)
(* the refinement of HandoffOwnership follows from it.                     *)
(***************************************************************************)
EXTENDS HandoffInvariant, TLAPS

LEMMA InitInv == Init => IInv
  <1> SUFFICES ASSUME Init PROVE IInv
    OBVIOUS
  <1>1. TypeOK
    BY HandoffAssumption DEF Init, TypeOK, ConvStatus, SessionStatus, OpenStatus, PC,
       ConvWrite, SessionWrite, NoConvWrites, NoSessionWrites
  <1>2. LocksExclusive
    BY DEF Init, LocksExclusive, NoConvWrites, NoSessionWrites
  <1>3. ASSUME NEW p \in Procs PROVE TransactionOK(p)
    BY <1>3 DEF Init, TransactionOK, Reserves, AtPoint, WritesConv, Inserts, Claims,
       Resolves, Sweeps, NoConvWrites, NoSessionWrites, SweepPC
  <1>4. AssignmentOK /\ EscalatedIffTimedOut /\ RepliesByAssignee
    BY DEF Init, AssignmentOK, EscalatedIffTimedOut, RepliesByAssignee
  <1>5. OneOpenSession /\ NobodyStranded /\ OpenMeansTransferred
    BY DEF Init, OneOpenSession, NobodyStranded, OpenMeansTransferred, Open, OpenStatus
  <1> QED BY <1>1, <1>2, <1>3, <1>4, <1>5 DEF IInv

-----------------------------------------------------------------------------
(* Steps inside a transaction *)

\* Nothing that other transactions are made of changes when p takes a step.
OthersUnchanged(p) ==
    \A q \in Procs \ {p} :
        /\ pc'[q] = pc[q] /\ cv'[q] = cv[q] /\ sn'[q] = sn[q]
        /\ who'[q] = who[q] /\ goal'[q] = goal[q]
        /\ convW'[q] = convW[q] /\ sessW'[q] = sessW[q]

\* p takes no lock somebody else has, and no row id somebody else has drawn.
TakesOnlyFree(p) ==
    /\ \A c \in Convs : convW'[p][c] # "untouched" => ConvFree(p, c)
    /\ \A s \in Sessions : sessW'[p][s] # "untouched" => SessionFree(p, s)
    /\ \A q \in Procs \ {p} :
          pc[q] \in {"transfer", "enqueue"} => sn'[p] # sn[q]

\* A step inside a transaction preserves IInv if what it leaves its own
\* transaction with is in order.
LEMMA LocalStep ==
    ASSUME IInv, NEW p \in Procs, TypeOK',
           UNCHANGED <<db, cut>>, OthersUnchanged(p), TakesOnlyFree(p),
           TransactionOK(p)'
    PROVE  IInv'
  <1>1. LocksExclusive'
    BY DEF IInv, LocksExclusive, OthersUnchanged, TakesOnlyFree, ConvFree, SessionFree
  <1>2. ASSUME NEW q \in Procs \ {p} PROVE TransactionOK(q)'
    <2> USE <1>2 DEF IInv, OthersUnchanged, db
    <2>1. Reserves(q)'
      BY DEF TransactionOK, Reserves, TakesOnlyFree
    <2>2. AtPoint(q)'
      BY DEF TransactionOK, AtPoint
    <2>3. \A c \in Convs : WritesConv(q, c)'
      BY DEF TransactionOK, WritesConv, Open
    <2>4. ASSUME NEW s \in Sessions
          PROVE (/\ Inserts(q, s) /\ Claims(q, s) /\ Resolves(q, s) /\ Sweeps(q, s)
                 /\ sessW[q][s] # "absent")'
      BY DEF TransactionOK, Inserts, Claims, Resolves, Sweeps, Open
    <2> QED BY <2>1, <2>2, <2>3, <2>4 DEF TransactionOK
  <1>3. (/\ AssignmentOK /\ OneOpenSession /\ NobodyStranded /\ OpenMeansTransferred
         /\ EscalatedIffTimedOut /\ RepliesByAssignee)'
    BY DEF IInv, db, AssignmentOK, OneOpenSession, NobodyStranded, OpenMeansTransferred,
       EscalatedIffTimedOut, RepliesByAssignee, Open
  <1> QED BY <1>1, <1>2, <1>3 DEF IInv

LEMMA ReleaseInv ==
    ASSUME IInv, NEW p \in Procs, Release(p), UNCHANGED <<db, expired, cut>>,
           crashes' \in Nat
    PROVE  IInv'
  <1>1. TypeOK'
    BY DEF IInv, TypeOK, Release, db, PC, ConvWrite, SessionWrite,
       NoConvWrites, NoSessionWrites
  <1>2. OthersUnchanged(p)
    BY DEF IInv, TypeOK, Release, OthersUnchanged
  <1>3. TakesOnlyFree(p)
    BY HandoffAssumption DEF IInv, TypeOK, Release, TakesOnlyFree, NoConvWrites, NoSessionWrites,
       TransactionOK, Reserves
  <1>4. TransactionOK(p)'
    BY DEF IInv, TypeOK, Release, TransactionOK, Reserves, AtPoint, WritesConv, Inserts,
       Claims, Resolves, Sweeps, NoConvWrites, NoSessionWrites, SweepPC
  <1> QED BY <1>1, <1>2, <1>3, <1>4, LocalStep

LEMMA TurnStartInv ==
    ASSUME IInv, NEW t \in Turns, NEW c \in Convs, TurnStart(t, c) PROVE IInv'
  <1> t \in Procs
    BY DEF Procs
  <1>1. TypeOK'
    BY HandoffAssumption DEF IInv, TypeOK, TurnStart, Goto, UpdateConv, locals, held, history, db,
       PC, TurnPC, RequestPC, SweepPC, ConvWrite, SessionWrite, ConvStatus, SessionStatus, OpenStatus,
       TransactionOK, AtPoint
  <1>2. OthersUnchanged(t)
    BY DEF IInv, TypeOK, TurnStart, Goto, UpdateConv, locals, held, OthersUnchanged
  <1>3. TakesOnlyFree(t)
    BY DEF IInv, TypeOK, TurnStart, Goto, UpdateConv, locals, held, TakesOnlyFree,
       TransactionOK, Reserves, LocksExclusive, ConvFree, SessionFree
  <1>4. UNCHANGED <<db, cut>>
    BY DEF TurnStart, Goto, history
  <1>5. pc[t] = "idle" /\ pc'[t] \in {"gate", "agent"}
     /\ cv'[t] = c /\ UNCHANGED <<sn, who, goal, convW, sessW>>
    BY DEF IInv, TypeOK, TurnStart, Goto, UpdateConv, locals, held, RequireAssignee, Batch
  <1>9. TransactionOK(t)'
    <2> /\ TransactionOK(t)
        /\ convW[t] \in [Convs -> ConvWrite] /\ sessW[t] \in [Sessions -> SessionWrite]
      BY DEF IInv, TypeOK
    <2> USE <1>4, <1>5, HandoffAssumption DEF db
    <2>1. Reserves(t)'
      BY DEF TransactionOK, Reserves
    <2>2. AtPoint(t)'
      BY DEF TransactionOK, AtPoint
    <2>3. ASSUME NEW d \in Convs PROVE WritesConv(t, d)'
      BY DEF TransactionOK, WritesConv, Open, OpenStatus, Closing, NoConvWrites
    <2>4. ASSUME NEW x \in Sessions PROVE Inserts(t, x)'
      BY DEF TransactionOK, Inserts, Open, NoSessionWrites
    <2>5. ASSUME NEW x \in Sessions PROVE Claims(t, x)'
      BY DEF TransactionOK, Claims, NoSessionWrites
    <2>6. ASSUME NEW x \in Sessions PROVE Resolves(t, x)'
      BY DEF TransactionOK, Resolves, NoSessionWrites
    <2>7. ASSUME NEW x \in Sessions PROVE Sweeps(t, x)' /\ sessW'[t][x] # "absent"
      BY DEF TransactionOK, Sweeps, SweepPC, NoSessionWrites
    <2> QED BY <2>1, <2>2, <2>3, <2>4, <2>5, <2>6, <2>7 DEF TransactionOK
  <1> QED BY <1>1, <1>2, <1>3, <1>4, <1>9, LocalStep

LEMMA TurnAnswerInv ==
    ASSUME IInv, NEW t \in Turns, TurnAnswer(t) PROVE IInv'
  <1> t \in Procs
    BY DEF Procs
  <1>1. TypeOK'
    <2>1. \E to \in PC : pc' = [pc EXCEPT ![t] = to]
      BY DEF TurnAnswer, Goto, PC, TurnPC
    <2> QED BY <2>1 DEF IInv, TypeOK, TurnAnswer, Goto, locals, held, history, db
  <1>2. OthersUnchanged(t)
    BY DEF IInv, TypeOK, TurnAnswer, Goto, UpdateConv, locals, held, OthersUnchanged
  <1>3. TakesOnlyFree(t)
    BY DEF IInv, TypeOK, TurnAnswer, Goto, UpdateConv, locals, held, TakesOnlyFree,
       TransactionOK, Reserves, LocksExclusive, ConvFree, SessionFree
  <1>4. UNCHANGED <<db, cut>>
    BY DEF TurnAnswer, Goto, history
  <1>5. pc[t] = "agent" /\ pc'[t] \in {"finish", "metadata"}
     /\ UNCHANGED <<cv, sn, who, goal, convW, sessW>>
    BY DEF IInv, TypeOK, TurnAnswer, Goto, UpdateConv, locals, held, RequireAssignee, Batch
  <1>9. TransactionOK(t)'
    <2> /\ TransactionOK(t)
        /\ convW[t] \in [Convs -> ConvWrite] /\ sessW[t] \in [Sessions -> SessionWrite]
      BY DEF IInv, TypeOK
    <2> USE <1>4, <1>5, HandoffAssumption DEF db
    <2>1. Reserves(t)'
      BY DEF TransactionOK, Reserves
    <2>2. AtPoint(t)'
      BY DEF TransactionOK, AtPoint
    <2>3. ASSUME NEW d \in Convs PROVE WritesConv(t, d)'
      BY DEF TransactionOK, WritesConv, Open, OpenStatus, Closing, NoConvWrites
    <2>4. ASSUME NEW x \in Sessions PROVE Inserts(t, x)'
      BY DEF TransactionOK, Inserts, Open, NoSessionWrites
    <2>5. ASSUME NEW x \in Sessions PROVE Claims(t, x)'
      BY DEF TransactionOK, Claims, NoSessionWrites
    <2>6. ASSUME NEW x \in Sessions PROVE Resolves(t, x)'
      BY DEF TransactionOK, Resolves, NoSessionWrites
    <2>7. ASSUME NEW x \in Sessions PROVE Sweeps(t, x)' /\ sessW'[t][x] # "absent"
      BY DEF TransactionOK, Sweeps, SweepPC, NoSessionWrites
    <2> QED BY <2>1, <2>2, <2>3, <2>4, <2>5, <2>6, <2>7 DEF TransactionOK
  <1> QED BY <1>1, <1>2, <1>3, <1>4, <1>9, LocalStep

LEMMA TurnMetadataInv ==
    ASSUME IInv, NEW t \in Turns, TurnMetadata(t) PROVE IInv'
  <1> t \in Procs
    BY DEF Procs
  <1>1. TypeOK'
    BY HandoffAssumption DEF IInv, TypeOK, TurnMetadata, Goto, UpdateConv, locals, held, history, db,
       PC, TurnPC, RequestPC, SweepPC, ConvWrite, SessionWrite, ConvStatus, SessionStatus, OpenStatus,
       TransactionOK, AtPoint
  <1>2. OthersUnchanged(t)
    BY DEF IInv, TypeOK, TurnMetadata, Goto, UpdateConv, locals, held, OthersUnchanged
  <1>3. TakesOnlyFree(t)
    BY DEF IInv, TypeOK, TurnMetadata, Goto, UpdateConv, locals, held, TakesOnlyFree,
       TransactionOK, Reserves, LocksExclusive, ConvFree, SessionFree
  <1>4. UNCHANGED <<db, cut>>
    BY DEF TurnMetadata, Goto, history
  <1>5. pc[t] = "metadata" /\ pc'[t] = "finish"
     /\ convW'[t] = [convW[t] EXCEPT ![cv[t]] = "locked"]
     /\ UNCHANGED <<cv, sn, who, goal, sessW>>
    BY DEF IInv, TypeOK, TurnMetadata, Goto, UpdateConv, locals, held, RequireAssignee, Batch
  <1>9. TransactionOK(t)'
    <2> /\ TransactionOK(t)
        /\ convW[t] \in [Convs -> ConvWrite] /\ sessW[t] \in [Sessions -> SessionWrite]
      BY DEF IInv, TypeOK
    <2> USE <1>4, <1>5, HandoffAssumption DEF db
    <2>1. Reserves(t)'
      BY DEF TransactionOK, Reserves
    <2>2. AtPoint(t)'
      BY DEF TransactionOK, AtPoint
    <2>3. ASSUME NEW d \in Convs PROVE WritesConv(t, d)'
      BY DEF TransactionOK, WritesConv, Open, OpenStatus, Closing, NoConvWrites
    <2>4. ASSUME NEW x \in Sessions PROVE Inserts(t, x)'
      BY DEF TransactionOK, Inserts, Open, NoSessionWrites
    <2>5. ASSUME NEW x \in Sessions PROVE Claims(t, x)'
      BY DEF TransactionOK, Claims, NoSessionWrites
    <2>6. ASSUME NEW x \in Sessions PROVE Resolves(t, x)'
      BY DEF TransactionOK, Resolves, NoSessionWrites
    <2>7. ASSUME NEW x \in Sessions PROVE Sweeps(t, x)' /\ sessW'[t][x] # "absent"
      BY DEF TransactionOK, Sweeps, SweepPC, NoSessionWrites
    <2> QED BY <2>1, <2>2, <2>3, <2>4, <2>5, <2>6, <2>7 DEF TransactionOK
  <1> QED BY <1>1, <1>2, <1>3, <1>4, <1>9, LocalStep

LEMMA TurnHandoffInv ==
    ASSUME IInv, NEW t \in Turns, NEW s \in Sessions, TurnHandoff(t, s) PROVE IInv'
  <1> t \in Procs
    BY DEF Procs
  <1>1. TypeOK'
    BY HandoffAssumption DEF IInv, TypeOK, TurnHandoff, Goto, UpdateConv, locals, held, history, db,
       PC, TurnPC, RequestPC, SweepPC, ConvWrite, SessionWrite, ConvStatus, SessionStatus, OpenStatus,
       TransactionOK, AtPoint
  <1>2. OthersUnchanged(t)
    BY DEF IInv, TypeOK, TurnHandoff, Goto, UpdateConv, locals, held, OthersUnchanged
  <1>3. TakesOnlyFree(t)
    BY DEF IInv, TypeOK, TurnHandoff, Goto, UpdateConv, locals, held, TakesOnlyFree,
       TransactionOK, Reserves, LocksExclusive, ConvFree, SessionFree
  <1>4. UNCHANGED <<db, cut>>
    BY DEF TurnHandoff, Goto, history
  <1>5. pc[t] = "agent" /\ pc'[t] = "transfer" /\ sn'[t] = s
     /\ UNCHANGED <<cv, who, goal, convW, sessW>>
    BY DEF IInv, TypeOK, TurnHandoff, Goto, UpdateConv, locals, held, RequireAssignee, Batch
  <1>9. TransactionOK(t)'
    <2> /\ TransactionOK(t)
        /\ convW[t] \in [Convs -> ConvWrite] /\ sessW[t] \in [Sessions -> SessionWrite]
      BY DEF IInv, TypeOK
    <2> USE <1>4, <1>5, HandoffAssumption DEF db
    <2>1. Reserves(t)'
      BY <1>2 DEF TurnHandoff, OthersUnchanged, Reserves
    <2>2. AtPoint(t)'
      BY DEF TransactionOK, AtPoint
    <2>3. ASSUME NEW d \in Convs PROVE WritesConv(t, d)'
      BY DEF TransactionOK, WritesConv, Open, OpenStatus, Closing, NoConvWrites
    <2>4. ASSUME NEW x \in Sessions PROVE Inserts(t, x)'
      BY DEF TransactionOK, Inserts, Open, NoSessionWrites
    <2>5. ASSUME NEW x \in Sessions PROVE Claims(t, x)'
      BY DEF TransactionOK, Claims, NoSessionWrites
    <2>6. ASSUME NEW x \in Sessions PROVE Resolves(t, x)'
      BY DEF TransactionOK, Resolves, NoSessionWrites
    <2>7. ASSUME NEW x \in Sessions PROVE Sweeps(t, x)' /\ sessW'[t][x] # "absent"
      BY DEF TransactionOK, Sweeps, SweepPC, NoSessionWrites
    <2> QED BY <2>1, <2>2, <2>3, <2>4, <2>5, <2>6, <2>7 DEF TransactionOK
  <1> QED BY <1>1, <1>2, <1>3, <1>4, <1>9, LocalStep

LEMMA TurnTransferInv ==
    ASSUME IInv, NEW t \in Turns, TurnTransfer(t) PROVE IInv'
  <1> t \in Procs
    BY DEF Procs
  <1>1. TypeOK'
    BY HandoffAssumption DEF IInv, TypeOK, TurnTransfer, Goto, UpdateConv, locals, held, history, db,
       PC, TurnPC, RequestPC, SweepPC, ConvWrite, SessionWrite, ConvStatus, SessionStatus, OpenStatus,
       TransactionOK, AtPoint
  <1>2. OthersUnchanged(t)
    BY DEF IInv, TypeOK, TurnTransfer, Goto, UpdateConv, locals, held, OthersUnchanged
  <1>3. TakesOnlyFree(t)
    BY DEF IInv, TypeOK, TurnTransfer, Goto, UpdateConv, locals, held, TakesOnlyFree,
       TransactionOK, Reserves, LocksExclusive, ConvFree, SessionFree
  <1>4. UNCHANGED <<db, cut>>
    BY DEF TurnTransfer, Goto, history
  <1>5. pc[t] = "transfer" /\ pc'[t] = "enqueue"
     /\ convW'[t] = [convW[t] EXCEPT ![cv[t]] = "transferred"]
     /\ UNCHANGED <<cv, sn, who, goal, sessW>>
    BY DEF IInv, TypeOK, TurnTransfer, Goto, UpdateConv, locals, held, RequireAssignee, Batch
  <1>6. cv[t] \in Convs /\ sn[t] \in Sessions /\ ConvOf[sn[t]] = cv[t]
    BY <1>5, HandoffAssumption DEF IInv, TypeOK, TransactionOK, AtPoint, Reserves
  <1>9. TransactionOK(t)'
    <2> /\ TransactionOK(t)
        /\ convW[t] \in [Convs -> ConvWrite] /\ sessW[t] \in [Sessions -> SessionWrite]
      BY DEF IInv, TypeOK
    <2> USE <1>4, <1>5, <1>6, HandoffAssumption DEF db
    <2>1. Reserves(t)'
      BY DEF TransactionOK, Reserves
    <2>2. AtPoint(t)'
      BY DEF TransactionOK, AtPoint
    <2>3. ASSUME NEW d \in Convs PROVE WritesConv(t, d)'
      BY DEF TransactionOK, WritesConv, Open, OpenStatus, Closing, NoConvWrites
    <2>4. ASSUME NEW x \in Sessions PROVE Inserts(t, x)'
      BY DEF TransactionOK, Inserts, Open, NoSessionWrites
    <2>5. ASSUME NEW x \in Sessions PROVE Claims(t, x)'
      BY DEF TransactionOK, Claims, NoSessionWrites
    <2>6. ASSUME NEW x \in Sessions PROVE Resolves(t, x)'
      BY DEF TransactionOK, Resolves, NoSessionWrites
    <2>7. ASSUME NEW x \in Sessions PROVE Sweeps(t, x)' /\ sessW'[t][x] # "absent"
      BY DEF TransactionOK, Sweeps, SweepPC, NoSessionWrites
    <2> QED BY <2>1, <2>2, <2>3, <2>4, <2>5, <2>6, <2>7 DEF TransactionOK
  <1> QED BY <1>1, <1>2, <1>3, <1>4, <1>9, LocalStep

LEMMA TurnEnqueueInv ==
    ASSUME IInv, NEW t \in Turns, TurnEnqueue(t) PROVE IInv'
  <1> t \in Procs
    BY DEF Procs
  <1>1. TypeOK'
    BY HandoffAssumption DEF IInv, TypeOK, TurnEnqueue, Goto, UpdateConv, locals, held, history, db,
       PC, TurnPC, RequestPC, SweepPC, ConvWrite, SessionWrite, ConvStatus, SessionStatus, OpenStatus,
       TransactionOK, AtPoint
  <1>2. OthersUnchanged(t)
    BY DEF IInv, TypeOK, TurnEnqueue, Goto, UpdateConv, locals, held, OthersUnchanged
  <1>3. TakesOnlyFree(t)
    <2>1. \A c \in Convs : convW'[t][c] # "untouched" => ConvFree(t, c)
      BY DEF IInv, TurnEnqueue, LocksExclusive, ConvFree
    <2>2. \A x \in Sessions : sessW'[t][x] # "untouched" => SessionFree(t, x)
      <3>1. \A q \in Procs \ {t} : sessW[q][sn[t]] = "untouched"
        BY DEF IInv, TypeOK, TurnEnqueue, Goto, IndexFree, TransactionOK, Reserves, Sweeps
      <3> QED BY <3>1 DEF IInv, TypeOK, TurnEnqueue, LocksExclusive, SessionFree
    <2>3. \A q \in Procs \ {t} : pc[q] \in {"transfer", "enqueue"} => sn'[t] # sn[q]
      BY DEF IInv, TypeOK, TurnEnqueue, locals, TransactionOK, Reserves
    <2> QED BY <2>1, <2>2, <2>3 DEF TakesOnlyFree
  <1>4. UNCHANGED <<db, cut>>
    BY DEF TurnEnqueue, Goto, history
  <1>5. pc[t] = "enqueue" /\ pc'[t] = "finish"
     /\ sessW'[t] = (IF Open(cv[t]) = {} THEN [sessW[t] EXCEPT ![sn[t]] = "queued"]
                                              ELSE sessW[t])
     /\ UNCHANGED <<cv, sn, who, goal, convW>>
    BY DEF IInv, TypeOK, TurnEnqueue, Goto, UpdateConv, locals, held, RequireAssignee, Batch
  <1>6. /\ cv[t] \in Convs /\ convW[t][cv[t]] = "transferred"
        /\ sn[t] \in Sessions /\ ConvOf[sn[t]] = cv[t] /\ status[sn[t]] = "absent"
    BY <1>5 DEF IInv, TransactionOK, AtPoint, WritesConv, Reserves
  <1>8. ASSUME NEW x \in Sessions PROVE sessW[t][x] = "untouched"
    <2>1. sessW[t][x] \in SessionWrite \ {"queued", "claimed", "absent"}
      BY <1>5 DEF IInv, TypeOK, TransactionOK, Inserts, Claims
    <2>2. sessW[t][x] \notin {"resolved", "returned", "locked", "ticketed", "timed_out"}
      BY <1>5 DEF IInv, TransactionOK, Resolves, Sweeps, SweepPC
    <2> QED BY <2>1, <2>2 DEF SessionWrite, SessionStatus, OpenStatus
  <1>9. TransactionOK(t)'
    <2> /\ TransactionOK(t)
        /\ convW[t] \in [Convs -> ConvWrite] /\ sessW[t] \in [Sessions -> SessionWrite]
      BY DEF IInv, TypeOK
    <2> USE <1>4, <1>5, <1>6, <1>8, HandoffAssumption DEF db
    <2>1. Reserves(t)'
      BY DEF TransactionOK, Reserves
    <2>2. AtPoint(t)'
      BY DEF TransactionOK, AtPoint
    <2>3. ASSUME NEW d \in Convs PROVE WritesConv(t, d)'
      BY DEF TransactionOK, WritesConv, Open, OpenStatus, Closing, NoConvWrites
    <2>4. ASSUME NEW x \in Sessions PROVE Inserts(t, x)'
      BY DEF TransactionOK, Inserts, Open, NoSessionWrites
    <2>5. ASSUME NEW x \in Sessions PROVE Claims(t, x)'
      BY DEF TransactionOK, Claims, NoSessionWrites
    <2>6. ASSUME NEW x \in Sessions PROVE Resolves(t, x)'
      BY DEF TransactionOK, Resolves, NoSessionWrites
    <2>7. ASSUME NEW x \in Sessions PROVE Sweeps(t, x)' /\ sessW'[t][x] # "absent"
      BY DEF TransactionOK, Sweeps, SweepPC, NoSessionWrites
    <2> QED BY <2>1, <2>2, <2>3, <2>4, <2>5, <2>6, <2>7 DEF TransactionOK
  <1> QED BY <1>1, <1>2, <1>3, <1>4, <1>9, LocalStep

LEMMA ClaimStartInv ==
    ASSUME IInv, NEW r \in Requests, NEW s \in Sessions, NEW a \in Staff, ClaimStart(r, s, a) PROVE IInv'
  <1> r \in Procs
    BY DEF Procs
  <1>1. TypeOK'
    BY HandoffAssumption DEF IInv, TypeOK, ClaimStart, Goto, UpdateConv, locals, held, history, db,
       PC, TurnPC, RequestPC, SweepPC, ConvWrite, SessionWrite, ConvStatus, SessionStatus, OpenStatus,
       TransactionOK, AtPoint
  <1>2. OthersUnchanged(r)
    BY DEF IInv, TypeOK, ClaimStart, Goto, UpdateConv, locals, held, OthersUnchanged
  <1>3. TakesOnlyFree(r)
    BY DEF IInv, TypeOK, ClaimStart, Goto, UpdateConv, locals, held, TakesOnlyFree,
       TransactionOK, Reserves, LocksExclusive, ConvFree, SessionFree
  <1>4. UNCHANGED <<db, cut>>
    BY DEF ClaimStart, Goto, history
  <1>5. pc[r] = "idle" /\ pc'[r] = "claim"
     /\ sn'[r] = s /\ cv'[r] = ConvOf[s] /\ who'[r] = a
     /\ UNCHANGED <<goal, convW, sessW>>
    BY DEF IInv, TypeOK, ClaimStart, Goto, UpdateConv, locals, held, RequireAssignee, Batch
  <1>6. convW[r] = NoConvWrites /\ sessW[r] = NoSessionWrites
    BY <1>5, HandoffAssumption DEF IInv, TypeOK, TransactionOK, AtPoint
  <1>9. TransactionOK(r)'
    <2> /\ TransactionOK(r)
        /\ convW[r] \in [Convs -> ConvWrite] /\ sessW[r] \in [Sessions -> SessionWrite]
      BY DEF IInv, TypeOK
    <2> USE <1>4, <1>5, <1>6, HandoffAssumption DEF db
    <2>1. Reserves(r)'
      BY DEF TransactionOK, Reserves
    <2>2. AtPoint(r)'
      BY DEF TransactionOK, AtPoint
    <2>3. ASSUME NEW d \in Convs PROVE WritesConv(r, d)'
      BY DEF TransactionOK, WritesConv, Open, OpenStatus, Closing, NoConvWrites
    <2>4. ASSUME NEW x \in Sessions PROVE Inserts(r, x)'
      BY DEF TransactionOK, Inserts, Open, NoSessionWrites
    <2>5. ASSUME NEW x \in Sessions PROVE Claims(r, x)'
      BY DEF TransactionOK, Claims, NoSessionWrites
    <2>6. ASSUME NEW x \in Sessions PROVE Resolves(r, x)'
      BY DEF TransactionOK, Resolves, NoSessionWrites
    <2>7. ASSUME NEW x \in Sessions PROVE Sweeps(r, x)' /\ sessW'[r][x] # "absent"
      BY DEF TransactionOK, Sweeps, SweepPC, NoSessionWrites
    <2> QED BY <2>1, <2>2, <2>3, <2>4, <2>5, <2>6, <2>7 DEF TransactionOK
  <1> QED BY <1>1, <1>2, <1>3, <1>4, <1>9, LocalStep

LEMMA ClaimInv ==
    ASSUME IInv, NEW r \in Requests, Claim(r) PROVE IInv'
  <1> r \in Procs
    BY DEF Procs
  <1>1. TypeOK'
    BY HandoffAssumption DEF IInv, TypeOK, Claim, Goto, UpdateConv, locals, held, history, db,
       PC, TurnPC, RequestPC, SweepPC, ConvWrite, SessionWrite, ConvStatus, SessionStatus, OpenStatus,
       TransactionOK, AtPoint
  <1>2. OthersUnchanged(r)
    BY DEF IInv, TypeOK, Claim, Goto, UpdateConv, locals, held, OthersUnchanged
  <1>3. TakesOnlyFree(r)
    BY DEF IInv, TypeOK, Claim, Goto, UpdateConv, locals, held, TakesOnlyFree,
       TransactionOK, Reserves, LocksExclusive, ConvFree, SessionFree
  <1>4. UNCHANGED <<db, cut>>
    BY DEF Claim, Goto, history
  <1>5. pc[r] = "claim" /\ pc'[r] = "commit"
     /\ sessW'[r] = [sessW[r] EXCEPT ![sn[r]] = "claimed"]
     /\ status[sn[r]] = "queued" /\ UNCHANGED <<cv, sn, who, goal, convW>>
    BY DEF IInv, TypeOK, Claim, Goto, UpdateConv, locals, held, RequireAssignee, Batch
  <1>6. convW[r] = NoConvWrites /\ sessW[r] = NoSessionWrites
     /\ sn[r] \in Sessions /\ who[r] \in Staff
    BY <1>5, HandoffAssumption DEF IInv, TypeOK, TransactionOK, AtPoint
  <1>9. TransactionOK(r)'
    <2> /\ TransactionOK(r)
        /\ convW[r] \in [Convs -> ConvWrite] /\ sessW[r] \in [Sessions -> SessionWrite]
      BY DEF IInv, TypeOK
    <2> USE <1>4, <1>5, <1>6, HandoffAssumption DEF db
    <2>1. Reserves(r)'
      BY DEF TransactionOK, Reserves
    <2>2. AtPoint(r)'
      BY DEF TransactionOK, AtPoint
    <2>3. ASSUME NEW d \in Convs PROVE WritesConv(r, d)'
      BY DEF TransactionOK, WritesConv, Open, OpenStatus, Closing, NoConvWrites
    <2>4. ASSUME NEW x \in Sessions PROVE Inserts(r, x)'
      BY DEF TransactionOK, Inserts, Open, NoSessionWrites
    <2>5. ASSUME NEW x \in Sessions PROVE Claims(r, x)'
      BY DEF TransactionOK, Claims, NoSessionWrites
    <2>6. ASSUME NEW x \in Sessions PROVE Resolves(r, x)'
      BY DEF TransactionOK, Resolves, NoSessionWrites
    <2>7. ASSUME NEW x \in Sessions PROVE Sweeps(r, x)' /\ sessW'[r][x] # "absent"
      BY DEF TransactionOK, Sweeps, SweepPC, NoSessionWrites
    <2> QED BY <2>1, <2>2, <2>3, <2>4, <2>5, <2>6, <2>7 DEF TransactionOK
  <1> QED BY <1>1, <1>2, <1>3, <1>4, <1>9, LocalStep

LEMMA AssigneeStartInv ==
    ASSUME IInv, NEW r \in Requests, NEW s \in Sessions, NEW a \in Staff, AssigneeStart(r, s, a) PROVE IInv'
  <1> r \in Procs
    BY DEF Procs
  <1>1. TypeOK'
    <2>1. \E to \in PC : pc' = [pc EXCEPT ![r] = to]
      BY DEF AssigneeStart, Goto, PC, RequestPC
    <2>2. who' \in [Procs -> Staff \cup {NoStaff}]
      BY DEF IInv, TypeOK, AssigneeStart
    <2>3. UNCHANGED <<db, expired, history, goal, held>>
      BY DEF AssigneeStart, Goto
    <2>4. /\ sn' \in [Procs -> Sessions \cup {NoSession}]
          /\ cv' \in [Procs -> Convs \cup {NoConv}]
      BY HandoffAssumption DEF IInv, TypeOK, AssigneeStart
    <2> QED BY <2>1, <2>2, <2>3, <2>4 DEF IInv, TypeOK, held, history, db
  <1>2. OthersUnchanged(r)
    BY DEF IInv, TypeOK, AssigneeStart, Goto, UpdateConv, locals, held, OthersUnchanged
  <1>3. TakesOnlyFree(r)
    <2>1. \A c \in Convs : convW'[r][c] # "untouched" => ConvFree(r, c)
      BY DEF IInv, AssigneeStart, held, LocksExclusive, ConvFree
    <2>2. \A x \in Sessions : sessW'[r][x] # "untouched" => SessionFree(r, x)
      BY DEF IInv, AssigneeStart, held, LocksExclusive, SessionFree
    <2>3. \A q \in Procs \ {r} : pc[q] \in {"transfer", "enqueue"} => sn'[r] # sn[q]
      BY DEF IInv, TypeOK, AssigneeStart, RequireAssignee, TransactionOK, Reserves
    <2> QED BY <2>1, <2>2, <2>3 DEF TakesOnlyFree
  <1>4. UNCHANGED <<db, cut>>
    BY DEF AssigneeStart, Goto, history
  <1>5. pc[r] = "idle" /\ pc'[r] \in {"reply", "close"}
     /\ sn'[r] = s /\ cv'[r] = ConvOf[s]
     /\ who'[r] \in {who[r], a} /\ (pc'[r] = "reply" => who'[r] = a)
     /\ status[s] = "claimed" /\ assignee[s] = a
     /\ UNCHANGED <<goal, convW, sessW>>
    BY DEF IInv, TypeOK, AssigneeStart, Goto, UpdateConv, locals, held, RequireAssignee, Batch
  <1>6. convW[r] = NoConvWrites /\ sessW[r] = NoSessionWrites
    BY <1>5, HandoffAssumption DEF IInv, TypeOK, TransactionOK, AtPoint
  <1>9. TransactionOK(r)'
    <2> /\ TransactionOK(r)
        /\ convW[r] \in [Convs -> ConvWrite] /\ sessW[r] \in [Sessions -> SessionWrite]
      BY DEF IInv, TypeOK
    <2> USE <1>4, <1>5, <1>6, HandoffAssumption DEF db
    <2>1. Reserves(r)'
      BY DEF TransactionOK, Reserves
    <2>2. AtPoint(r)'
      BY DEF TransactionOK, AtPoint
    <2>3. ASSUME NEW d \in Convs PROVE WritesConv(r, d)'
      BY DEF TransactionOK, WritesConv, Open, OpenStatus, Closing, NoConvWrites
    <2>4. ASSUME NEW x \in Sessions PROVE Inserts(r, x)'
      BY DEF TransactionOK, Inserts, Open, NoSessionWrites
    <2>5. ASSUME NEW x \in Sessions PROVE Claims(r, x)'
      BY DEF TransactionOK, Claims, NoSessionWrites
    <2>6. ASSUME NEW x \in Sessions PROVE Resolves(r, x)'
      BY DEF TransactionOK, Resolves, NoSessionWrites
    <2>7. ASSUME NEW x \in Sessions PROVE Sweeps(r, x)' /\ sessW'[r][x] # "absent"
      BY DEF TransactionOK, Sweeps, SweepPC, NoSessionWrites
    <2> QED BY <2>1, <2>2, <2>3, <2>4, <2>5, <2>6, <2>7 DEF TransactionOK
  <1> QED BY <1>1, <1>2, <1>3, <1>4, <1>9, LocalStep

LEMMA CloseInv ==
    ASSUME IInv, NEW r \in Requests,
           NEW outcome \in {"resolved", "returned"}, NEW next \in {"active", "closed"}, Close(r, outcome, next) PROVE IInv'
  <1> r \in Procs
    BY DEF Procs
  <1>1. TypeOK'
    BY HandoffAssumption DEF IInv, TypeOK, Close, Goto, UpdateConv, locals, held, history, db,
       PC, TurnPC, RequestPC, SweepPC, ConvWrite, SessionWrite, ConvStatus, SessionStatus, OpenStatus,
       TransactionOK, AtPoint
  <1>2. OthersUnchanged(r)
    BY DEF IInv, TypeOK, Close, Goto, UpdateConv, locals, held, OthersUnchanged
  <1>3. TakesOnlyFree(r)
    BY DEF IInv, TypeOK, Close, Goto, UpdateConv, locals, held, TakesOnlyFree,
       TransactionOK, Reserves, LocksExclusive, ConvFree, SessionFree
  <1>4. UNCHANGED <<db, cut>>
    BY DEF Close, Goto, history
  <1>5. pc[r] = "close" /\ pc'[r] = "readConv" /\ goal'[r] = next
     /\ sessW'[r] = [sessW[r] EXCEPT ![sn[r]] = outcome]
     /\ status[sn[r]] = "claimed" /\ UNCHANGED <<cv, sn, who, convW>>
    BY DEF IInv, TypeOK, Close, Goto, UpdateConv, locals, held, RequireAssignee, Batch
  <1>6. convW[r] = NoConvWrites /\ sessW[r] = NoSessionWrites
     /\ sn[r] \in Sessions /\ cv[r] = ConvOf[sn[r]]
    BY <1>5, HandoffAssumption DEF IInv, TypeOK, TransactionOK, AtPoint
  <1>9. TransactionOK(r)'
    <2> /\ TransactionOK(r)
        /\ convW[r] \in [Convs -> ConvWrite] /\ sessW[r] \in [Sessions -> SessionWrite]
      BY DEF IInv, TypeOK
    <2> USE <1>4, <1>5, <1>6, HandoffAssumption DEF db
    <2>1. Reserves(r)'
      BY DEF TransactionOK, Reserves
    <2>2. AtPoint(r)'
      BY DEF TransactionOK, AtPoint
    <2>3. ASSUME NEW d \in Convs PROVE WritesConv(r, d)'
      BY DEF TransactionOK, WritesConv, Open, OpenStatus, Closing, NoConvWrites
    <2>4. ASSUME NEW x \in Sessions PROVE Inserts(r, x)'
      BY DEF TransactionOK, Inserts, Open, NoSessionWrites
    <2>5. ASSUME NEW x \in Sessions PROVE Claims(r, x)'
      BY DEF TransactionOK, Claims, NoSessionWrites
    <2>6. ASSUME NEW x \in Sessions PROVE Resolves(r, x)'
      BY DEF TransactionOK, Resolves, NoSessionWrites
    <2>7. ASSUME NEW x \in Sessions PROVE Sweeps(r, x)' /\ sessW'[r][x] # "absent"
      BY DEF TransactionOK, Sweeps, SweepPC, NoSessionWrites
    <2> QED BY <2>1, <2>2, <2>3, <2>4, <2>5, <2>6, <2>7 DEF TransactionOK
  <1> QED BY <1>1, <1>2, <1>3, <1>4, <1>9, LocalStep

LEMMA ReadConvInv ==
    ASSUME IInv, NEW r \in Requests, ReadConv(r) PROVE IInv'
  <1> r \in Procs
    BY DEF Procs
  <1>1. TypeOK'
    BY HandoffAssumption DEF IInv, TypeOK, ReadConv, Goto, UpdateConv, locals, held, history, db,
       PC, TurnPC, RequestPC, SweepPC, ConvWrite, SessionWrite, ConvStatus, SessionStatus, OpenStatus,
       TransactionOK, AtPoint
  <1>2. OthersUnchanged(r)
    BY DEF IInv, TypeOK, ReadConv, Goto, UpdateConv, locals, held, OthersUnchanged
  <1>3. TakesOnlyFree(r)
    BY DEF IInv, TypeOK, ReadConv, Goto, UpdateConv, locals, held, TakesOnlyFree,
       TransactionOK, Reserves, LocksExclusive, ConvFree, SessionFree
  <1>4. UNCHANGED <<db, cut>>
    BY DEF ReadConv, Goto, history
  <1>5. pc[r] = "readConv"
     /\ pc'[r] = (IF convStatus[cv[r]] = goal[r] THEN "commit" ELSE "writeConv")
     /\ UNCHANGED <<cv, sn, who, goal, convW, sessW>>
    BY DEF IInv, TypeOK, ReadConv, Goto, UpdateConv, locals, held, RequireAssignee, Batch
  <1>6. sn[r] \in Sessions /\ sessW[r][sn[r]] \in {"resolved", "returned"}
     /\ status[sn[r]] = "claimed" /\ cv[r] = ConvOf[sn[r]]
    BY <1>5, HandoffAssumption DEF IInv, TypeOK, TransactionOK, AtPoint, Resolves
  <1>8. convStatus[cv[r]] = goal[r] => cv[r] \in cut
    BY <1>6, HandoffAssumption DEF IInv, TypeOK, OpenMeansTransferred, Open, OpenStatus
  <1>9. TransactionOK(r)'
    <2> /\ TransactionOK(r)
        /\ convW[r] \in [Convs -> ConvWrite] /\ sessW[r] \in [Sessions -> SessionWrite]
      BY DEF IInv, TypeOK
    <2> USE <1>4, <1>5, <1>6, <1>8, HandoffAssumption DEF db
    <2>1. Reserves(r)'
      BY DEF TransactionOK, Reserves
    <2>2. AtPoint(r)'
      BY DEF TransactionOK, AtPoint
    <2>3. ASSUME NEW d \in Convs PROVE WritesConv(r, d)'
      BY DEF TransactionOK, WritesConv, Open, OpenStatus, Closing, NoConvWrites
    <2>4. ASSUME NEW x \in Sessions PROVE Inserts(r, x)'
      BY DEF TransactionOK, Inserts, Open, NoSessionWrites
    <2>5. ASSUME NEW x \in Sessions PROVE Claims(r, x)'
      BY DEF TransactionOK, Claims, NoSessionWrites
    <2>6. ASSUME NEW x \in Sessions PROVE Resolves(r, x)'
      BY DEF TransactionOK, Resolves, NoSessionWrites
    <2>7. ASSUME NEW x \in Sessions PROVE Sweeps(r, x)' /\ sessW'[r][x] # "absent"
      BY DEF TransactionOK, Sweeps, SweepPC, NoSessionWrites
    <2> QED BY <2>1, <2>2, <2>3, <2>4, <2>5, <2>6, <2>7 DEF TransactionOK
  <1> QED BY <1>1, <1>2, <1>3, <1>4, <1>9, LocalStep

LEMMA WriteConvInv ==
    ASSUME IInv, NEW r \in Requests, WriteConv(r) PROVE IInv'
  <1> r \in Procs
    BY DEF Procs
  <1>1. TypeOK'
    BY HandoffAssumption DEF IInv, TypeOK, WriteConv, Goto, UpdateConv, locals, held, history, db,
       PC, TurnPC, RequestPC, SweepPC, ConvWrite, SessionWrite, ConvStatus, SessionStatus, OpenStatus,
       TransactionOK, AtPoint
  <1>2. OthersUnchanged(r)
    BY DEF IInv, TypeOK, WriteConv, Goto, UpdateConv, locals, held, OthersUnchanged
  <1>3. TakesOnlyFree(r)
    BY DEF IInv, TypeOK, WriteConv, Goto, UpdateConv, locals, held, TakesOnlyFree,
       TransactionOK, Reserves, LocksExclusive, ConvFree, SessionFree
  <1>4. UNCHANGED <<db, cut>>
    BY DEF WriteConv, Goto, history
  <1>5. pc[r] = "writeConv" /\ pc'[r] = "commit"
     /\ convW'[r] = [convW[r] EXCEPT ![cv[r]] = goal[r]]
     /\ UNCHANGED <<cv, sn, who, goal, sessW>>
    BY DEF IInv, TypeOK, WriteConv, Goto, UpdateConv, locals, held, RequireAssignee, Batch
  <1>6. cv[r] \in Convs
     /\ (goal[r] = "active" =>
           \E s \in Sessions : /\ ConvOf[s] = cv[r] /\ status[s] = "claimed"
                               /\ sessW[r][s] \in {"resolved", "returned"})
    BY <1>5, HandoffAssumption DEF IInv, TypeOK, TransactionOK, AtPoint, Resolves
  <1>8. goal[r] \in {"active", "closed"}
    BY DEF IInv, TypeOK
  <1>9. TransactionOK(r)'
    <2> /\ TransactionOK(r)
        /\ convW[r] \in [Convs -> ConvWrite] /\ sessW[r] \in [Sessions -> SessionWrite]
      BY DEF IInv, TypeOK
    <2> USE <1>4, <1>5, <1>6, <1>8, HandoffAssumption DEF db
    <2>1. Reserves(r)'
      BY DEF TransactionOK, Reserves
    <2>2. AtPoint(r)'
      BY DEF TransactionOK, AtPoint
    <2>3. ASSUME NEW d \in Convs PROVE WritesConv(r, d)'
      BY DEF TransactionOK, WritesConv, Open, OpenStatus, Closing, NoConvWrites
    <2>4. ASSUME NEW x \in Sessions PROVE Inserts(r, x)'
      BY DEF TransactionOK, Inserts, Open, NoSessionWrites
    <2>5. ASSUME NEW x \in Sessions PROVE Claims(r, x)'
      BY DEF TransactionOK, Claims, NoSessionWrites
    <2>6. ASSUME NEW x \in Sessions PROVE Resolves(r, x)'
      BY DEF TransactionOK, Resolves, NoSessionWrites
    <2>7. ASSUME NEW x \in Sessions PROVE Sweeps(r, x)' /\ sessW'[r][x] # "absent"
      BY DEF TransactionOK, Sweeps, SweepPC, NoSessionWrites
    <2> QED BY <2>1, <2>2, <2>3, <2>4, <2>5, <2>6, <2>7 DEF TransactionOK
  <1> QED BY <1>1, <1>2, <1>3, <1>4, <1>9, LocalStep

LEMMA ArchiveStartInv ==
    ASSUME IInv, NEW r \in Requests, NEW c \in Convs, ArchiveStart(r, c) PROVE IInv'
  <1> r \in Procs
    BY DEF Procs
  <1>1. TypeOK'
    BY HandoffAssumption DEF IInv, TypeOK, ArchiveStart, Goto, UpdateConv, locals, held, history, db,
       PC, TurnPC, RequestPC, SweepPC, ConvWrite, SessionWrite, ConvStatus, SessionStatus, OpenStatus,
       TransactionOK, AtPoint
  <1>2. OthersUnchanged(r)
    BY DEF IInv, TypeOK, ArchiveStart, Goto, UpdateConv, locals, held, OthersUnchanged
  <1>3. TakesOnlyFree(r)
    BY DEF IInv, TypeOK, ArchiveStart, Goto, UpdateConv, locals, held, TakesOnlyFree,
       TransactionOK, Reserves, LocksExclusive, ConvFree, SessionFree
  <1>4. UNCHANGED <<db, cut>>
    BY DEF ArchiveStart, Goto, history
  <1>5. pc[r] = "idle" /\ pc'[r] = "writeConv"
     /\ cv'[r] = c /\ goal'[r] = "closed"
     /\ UNCHANGED <<sn, who, convW, sessW>>
    BY DEF IInv, TypeOK, ArchiveStart, Goto, UpdateConv, locals, held, RequireAssignee, Batch
  <1>6. convW[r] = NoConvWrites /\ sessW[r] = NoSessionWrites
    BY <1>5, HandoffAssumption DEF IInv, TypeOK, TransactionOK, AtPoint
  <1>9. TransactionOK(r)'
    <2> /\ TransactionOK(r)
        /\ convW[r] \in [Convs -> ConvWrite] /\ sessW[r] \in [Sessions -> SessionWrite]
      BY DEF IInv, TypeOK
    <2> USE <1>4, <1>5, <1>6, HandoffAssumption DEF db
    <2>1. Reserves(r)'
      BY DEF TransactionOK, Reserves
    <2>2. AtPoint(r)'
      BY DEF TransactionOK, AtPoint
    <2>3. ASSUME NEW d \in Convs PROVE WritesConv(r, d)'
      BY DEF TransactionOK, WritesConv, Open, OpenStatus, Closing, NoConvWrites
    <2>4. ASSUME NEW x \in Sessions PROVE Inserts(r, x)'
      BY DEF TransactionOK, Inserts, Open, NoSessionWrites
    <2>5. ASSUME NEW x \in Sessions PROVE Claims(r, x)'
      BY DEF TransactionOK, Claims, NoSessionWrites
    <2>6. ASSUME NEW x \in Sessions PROVE Resolves(r, x)'
      BY DEF TransactionOK, Resolves, NoSessionWrites
    <2>7. ASSUME NEW x \in Sessions PROVE Sweeps(r, x)' /\ sessW'[r][x] # "absent"
      BY DEF TransactionOK, Sweeps, SweepPC, NoSessionWrites
    <2> QED BY <2>1, <2>2, <2>3, <2>4, <2>5, <2>6, <2>7 DEF TransactionOK
  <1> QED BY <1>1, <1>2, <1>3, <1>4, <1>9, LocalStep

LEMMA SweepSelectInv ==
    ASSUME IInv, NEW w \in Sweepers, SweepSelect(w) PROVE IInv'
  <1> w \in Procs
    BY DEF Procs
  <1>1. TypeOK'
    BY HandoffAssumption DEF IInv, TypeOK, SweepSelect, Goto, UpdateConv, locals, held, history, db,
       PC, TurnPC, RequestPC, SweepPC, ConvWrite, SessionWrite, ConvStatus, SessionStatus, OpenStatus,
       TransactionOK, AtPoint
  <1>2. OthersUnchanged(w)
    BY DEF IInv, TypeOK, SweepSelect, Goto, UpdateConv, locals, held, OthersUnchanged
  <1>3. TakesOnlyFree(w)
    BY DEF IInv, TypeOK, SweepSelect, Goto, UpdateConv, locals, held, TakesOnlyFree,
       TransactionOK, Reserves, LocksExclusive, ConvFree, SessionFree
  <1>4. UNCHANGED <<db, cut>>
    BY DEF SweepSelect, Goto, history
  <1>5. pc[w] = "idle" /\ pc'[w] = "escalate"
     /\ (\A x \in Sessions :
                 \/ sessW'[w][x] = "untouched"
                 \/ sessW'[w][x] = "locked" /\ status[x] = "queued" /\ SessionFree(w, x))
     /\ UNCHANGED <<cv, sn, who, goal, convW>>
    BY DEF IInv, TypeOK, SweepSelect, Goto, UpdateConv, locals, held, RequireAssignee, Batch
  <1>6. convW[w] = NoConvWrites /\ sessW[w] = NoSessionWrites
    BY <1>5, HandoffAssumption DEF IInv, TypeOK, TransactionOK, AtPoint
  <1>9. TransactionOK(w)'
    <2> /\ TransactionOK(w)
        /\ convW[w] \in [Convs -> ConvWrite] /\ sessW[w] \in [Sessions -> SessionWrite]
      BY DEF IInv, TypeOK
    <2> USE <1>4, <1>5, <1>6, HandoffAssumption DEF db
    <2>1. Reserves(w)'
      BY DEF TransactionOK, Reserves
    <2>2. AtPoint(w)'
      BY DEF TransactionOK, AtPoint
    <2>3. ASSUME NEW d \in Convs PROVE WritesConv(w, d)'
      BY DEF TransactionOK, WritesConv, Open, OpenStatus, Closing, NoConvWrites
    <2>4. ASSUME NEW x \in Sessions PROVE Inserts(w, x)'
      BY DEF TransactionOK, Inserts, Open, NoSessionWrites
    <2>5. ASSUME NEW x \in Sessions PROVE Claims(w, x)'
      BY DEF TransactionOK, Claims, NoSessionWrites
    <2>6. ASSUME NEW x \in Sessions PROVE Resolves(w, x)'
      BY DEF TransactionOK, Resolves, NoSessionWrites
    <2>7. ASSUME NEW x \in Sessions PROVE Sweeps(w, x)' /\ sessW'[w][x] # "absent"
      BY DEF TransactionOK, Sweeps, SweepPC, NoSessionWrites
    <2> QED BY <2>1, <2>2, <2>3, <2>4, <2>5, <2>6, <2>7 DEF TransactionOK
  <1> QED BY <1>1, <1>2, <1>3, <1>4, <1>9, LocalStep

LEMMA SweepEscalateInv ==
    ASSUME IInv, NEW w \in Sweepers, NEW s \in Sessions, SweepEscalate(w, s) PROVE IInv'
  <1> w \in Procs
    BY DEF Procs
  <1>1. TypeOK'
    BY HandoffAssumption DEF IInv, TypeOK, SweepEscalate, Goto, UpdateConv, locals, held, history, db,
       PC, TurnPC, RequestPC, SweepPC, ConvWrite, SessionWrite, ConvStatus, SessionStatus, OpenStatus,
       TransactionOK, AtPoint
  <1>2. OthersUnchanged(w)
    BY DEF IInv, TypeOK, SweepEscalate, Goto, UpdateConv, locals, held, OthersUnchanged
  <1>3. TakesOnlyFree(w)
    <2>1. \A c \in Convs : convW'[w][c] # "untouched" => ConvFree(w, c)
      BY DEF IInv, SweepEscalate, held, LocksExclusive, ConvFree
    <2>2. \A x \in Sessions : sessW'[w][x] # "untouched" => SessionFree(w, x)
      BY DEF IInv, TypeOK, SweepEscalate, Batch, LocksExclusive, SessionFree
    <2>3. \A q \in Procs \ {w} : pc[q] \in {"transfer", "enqueue"} => sn'[w] # sn[q]
      BY DEF IInv, TypeOK, SweepEscalate, Batch, TransactionOK, Reserves, Sweeps
    <2> QED BY <2>1, <2>2, <2>3 DEF TakesOnlyFree
  <1>4. UNCHANGED <<db, cut>>
    BY DEF SweepEscalate, Goto, history
  <1>5. pc[w] = "escalate" /\ sessW[w][s] = "locked"
     /\ pc'[w] = (IF convStatus[ConvOf[s]] = "active" THEN "expireOnly" ELSE "expire")
     /\ sn'[w] = s /\ cv'[w] = ConvOf[s]
     /\ sessW'[w] = [sessW[w] EXCEPT ![s] = "ticketed"]
     /\ UNCHANGED <<who, goal, convW>>
    BY DEF IInv, TypeOK, SweepEscalate, Goto, UpdateConv, locals, held, RequireAssignee, Batch
  <1>6. status[s] = "queued" /\ (convStatus[ConvOf[s]] = "active" => ConvOf[s] \in cut)
    <2>1. status[s] = "queued"
      BY <1>5 DEF IInv, TransactionOK, Sweeps
    <2>2. s \in Open(ConvOf[s]) /\ ConvOf[s] \in Convs
      BY <2>1, HandoffAssumption DEF Open, OpenStatus
    <2> QED BY <2>1, <2>2 DEF IInv, OpenMeansTransferred
  <1>9. TransactionOK(w)'
    <2> /\ TransactionOK(w)
        /\ convW[w] \in [Convs -> ConvWrite] /\ sessW[w] \in [Sessions -> SessionWrite]
      BY DEF IInv, TypeOK
    <2> USE <1>4, <1>5, <1>6, HandoffAssumption DEF db
    <2>1. Reserves(w)'
      BY DEF TransactionOK, Reserves
    <2>2. AtPoint(w)'
      BY DEF TransactionOK, AtPoint
    <2>3. ASSUME NEW d \in Convs PROVE WritesConv(w, d)'
      BY DEF TransactionOK, WritesConv, Open, OpenStatus, Closing, NoConvWrites
    <2>4. ASSUME NEW x \in Sessions PROVE Inserts(w, x)'
      BY DEF TransactionOK, Inserts, Open, NoSessionWrites
    <2>5. ASSUME NEW x \in Sessions PROVE Claims(w, x)'
      BY DEF TransactionOK, Claims, NoSessionWrites
    <2>6. ASSUME NEW x \in Sessions PROVE Resolves(w, x)'
      BY DEF TransactionOK, Resolves, NoSessionWrites
    <2>7. ASSUME NEW x \in Sessions PROVE Sweeps(w, x)' /\ sessW'[w][x] # "absent"
      BY DEF TransactionOK, Sweeps, SweepPC, NoSessionWrites
    <2> QED BY <2>1, <2>2, <2>3, <2>4, <2>5, <2>6, <2>7 DEF TransactionOK
  <1> QED BY <1>1, <1>2, <1>3, <1>4, <1>9, LocalStep

LEMMA SweepExpireInv ==
    ASSUME IInv, NEW w \in Sweepers, SweepExpire(w) PROVE IInv'
  <1> w \in Procs
    BY DEF Procs
  <1>1. TypeOK'
    <2>1. \E to \in PC : pc' = [pc EXCEPT ![w] = to]
      BY DEF SweepExpire, Goto, PC, SweepPC
    <2>2. sessW' \in [Procs -> [Sessions -> SessionWrite]]
      BY DEF IInv, TypeOK, SweepExpire, SessionWrite, SessionStatus
    <2> QED BY <2>1, <2>2 DEF IInv, TypeOK, SweepExpire, Goto, locals, history, db
  <1>2. OthersUnchanged(w)
    BY DEF IInv, TypeOK, SweepExpire, Goto, UpdateConv, locals, held, OthersUnchanged
  <1>3. TakesOnlyFree(w)
    BY DEF IInv, TypeOK, SweepExpire, Goto, UpdateConv, locals, held, TakesOnlyFree,
       TransactionOK, Reserves, LocksExclusive, ConvFree, SessionFree
  <1>4. UNCHANGED <<db, cut>>
    BY DEF SweepExpire, Goto, history
  <1>5. <<pc[w], pc'[w]>> \in {<<"expire", "handBack">>, <<"expireOnly", "escalate">>}
     /\ sessW'[w] = (IF status[sn[w]] = "queued"
                           THEN [sessW[w] EXCEPT ![sn[w]] = "timed_out"] ELSE sessW[w])
     /\ UNCHANGED <<cv, sn, who, goal, convW>>
    BY DEF IInv, TypeOK, SweepExpire, Goto, UpdateConv, locals, held, RequireAssignee, Batch
  <1>6. sn[w] \in Sessions /\ sessW[w][sn[w]] = "ticketed" /\ status[sn[w]] = "queued"
     /\ cv[w] = ConvOf[sn[w]] /\ (pc[w] = "expireOnly" => cv[w] \in cut)
    BY <1>5, HandoffAssumption DEF IInv, TypeOK, TransactionOK, AtPoint, Sweeps
  <1>9. TransactionOK(w)'
    <2> /\ TransactionOK(w)
        /\ convW[w] \in [Convs -> ConvWrite] /\ sessW[w] \in [Sessions -> SessionWrite]
      BY DEF IInv, TypeOK
    <2> USE <1>4, <1>5, <1>6, HandoffAssumption DEF db
    <2>1. Reserves(w)'
      BY DEF TransactionOK, Reserves
    <2>2. AtPoint(w)'
      BY DEF TransactionOK, AtPoint
    <2>3. ASSUME NEW d \in Convs PROVE WritesConv(w, d)'
      BY DEF TransactionOK, WritesConv, Open, OpenStatus, Closing, NoConvWrites
    <2>4. ASSUME NEW x \in Sessions PROVE Inserts(w, x)'
      BY DEF TransactionOK, Inserts, Open, NoSessionWrites
    <2>5. ASSUME NEW x \in Sessions PROVE Claims(w, x)'
      BY DEF TransactionOK, Claims, NoSessionWrites
    <2>6. ASSUME NEW x \in Sessions PROVE Resolves(w, x)'
      BY DEF TransactionOK, Resolves, NoSessionWrites
    <2>7. ASSUME NEW x \in Sessions PROVE Sweeps(w, x)' /\ sessW'[w][x] # "absent"
      BY DEF TransactionOK, Sweeps, SweepPC, NoSessionWrites
    <2> QED BY <2>1, <2>2, <2>3, <2>4, <2>5, <2>6, <2>7 DEF TransactionOK
  <1> QED BY <1>1, <1>2, <1>3, <1>4, <1>9, LocalStep

LEMMA SweepHandBackInv ==
    ASSUME IInv, NEW w \in Sweepers, SweepHandBack(w) PROVE IInv'
  <1> w \in Procs
    BY DEF Procs
  <1>1. TypeOK'
    BY HandoffAssumption DEF IInv, TypeOK, SweepHandBack, Goto, UpdateConv, locals, held, history, db,
       PC, TurnPC, RequestPC, SweepPC, ConvWrite, SessionWrite, ConvStatus, SessionStatus, OpenStatus,
       TransactionOK, AtPoint
  <1>2. OthersUnchanged(w)
    BY DEF IInv, TypeOK, SweepHandBack, Goto, UpdateConv, locals, held, OthersUnchanged
  <1>3. TakesOnlyFree(w)
    BY DEF IInv, TypeOK, SweepHandBack, Goto, UpdateConv, locals, held, TakesOnlyFree,
       TransactionOK, Reserves, LocksExclusive, ConvFree, SessionFree
  <1>4. UNCHANGED <<db, cut>>
    BY DEF SweepHandBack, Goto, history
  <1>5. pc[w] = "handBack" /\ pc'[w] = "escalate"
     /\ convW'[w] = [convW[w] EXCEPT ![cv[w]] = "active"]
     /\ UNCHANGED <<cv, sn, who, goal, sessW>>
    BY DEF IInv, TypeOK, SweepHandBack, Goto, UpdateConv, locals, held, RequireAssignee, Batch
  <1>6. sn[w] \in Sessions /\ sessW[w][sn[w]] = "timed_out" /\ status[sn[w]] = "queued"
     /\ cv[w] = ConvOf[sn[w]]
    BY <1>5, HandoffAssumption DEF IInv, TypeOK, TransactionOK, AtPoint, Sweeps
  <1>9. TransactionOK(w)'
    <2> /\ TransactionOK(w)
        /\ convW[w] \in [Convs -> ConvWrite] /\ sessW[w] \in [Sessions -> SessionWrite]
      BY DEF IInv, TypeOK
    <2> USE <1>4, <1>5, <1>6, HandoffAssumption DEF db
    <2>1. Reserves(w)'
      BY DEF TransactionOK, Reserves
    <2>2. AtPoint(w)'
      BY DEF TransactionOK, AtPoint
    <2>3. ASSUME NEW d \in Convs PROVE WritesConv(w, d)'
      BY DEF TransactionOK, WritesConv, Open, OpenStatus, Closing, NoConvWrites
    <2>4. ASSUME NEW x \in Sessions PROVE Inserts(w, x)'
      BY DEF TransactionOK, Inserts, Open, NoSessionWrites
    <2>5. ASSUME NEW x \in Sessions PROVE Claims(w, x)'
      BY DEF TransactionOK, Claims, NoSessionWrites
    <2>6. ASSUME NEW x \in Sessions PROVE Resolves(w, x)'
      BY DEF TransactionOK, Resolves, NoSessionWrites
    <2>7. ASSUME NEW x \in Sessions PROVE Sweeps(w, x)' /\ sessW'[w][x] # "absent"
      BY DEF TransactionOK, Sweeps, SweepPC, NoSessionWrites
    <2> QED BY <2>1, <2>2, <2>3, <2>4, <2>5, <2>6, <2>7 DEF TransactionOK
  <1> QED BY <1>1, <1>2, <1>3, <1>4, <1>9, LocalStep

-----------------------------------------------------------------------------
(* The steps that end a transaction *)

\* A transaction commits once nothing is left to do in it.
Done(p) ==
    /\ pc[p] \in {"gate", "finish", "reply", "commit", "escalate"}
    /\ pc[p] = "escalate" => Batch(p) = {}

\* What a transaction that is done has written to a session row.
LEMMA WrittenSession ==
    ASSUME IInv, NEW p \in Procs, Done(p), NEW s \in Sessions
    PROVE  \/ sessW[p][s] = "untouched"
           \/ /\ sessW[p][s] = "queued" /\ status[s] = "absent"
              /\ pc[p] = "finish" /\ sn[p] = s
              /\ convW[p][ConvOf[s]] = "transferred" /\ Open(ConvOf[s]) = {}
           \/ /\ sessW[p][s] = "claimed" /\ status[s] = "queued"
              /\ pc[p] = "commit" /\ who[p] \in Staff /\ convW[p] = NoConvWrites
           \/ /\ sessW[p][s] \in {"resolved", "returned"} /\ status[s] = "claimed"
              /\ pc[p] = "commit"
              /\ ConvOf[s] \notin cut => convW[p][ConvOf[s]] \in {"active", "closed"}
           \/ /\ sessW[p][s] = "timed_out" /\ status[s] = "queued"
              /\ pc[p] = "escalate"
              /\ ConvOf[s] \notin cut => convW[p][ConvOf[s]] = "active"
  <1>1. /\ Inserts(p, s) /\ Claims(p, s) /\ Resolves(p, s) /\ Sweeps(p, s)
        /\ sessW[p][s] # "absent"
    BY DEF IInv, TransactionOK
  <1>2. sessW[p][s] \in SessionWrite
    BY DEF IInv, TypeOK
  <1>3. CASE sessW[p][s] \in {"locked", "ticketed"}
    BY <1>1, <1>3 DEF Done, Batch, Sweeps, SweepPC
  <1>4. CASE sessW[p][s] = "queued"
    BY <1>1, <1>4 DEF Inserts
  <1>5. CASE sessW[p][s] = "claimed"
    BY <1>1, <1>5 DEF Claims
  <1>6. CASE sessW[p][s] \in {"resolved", "returned"}
    BY <1>1, <1>6 DEF Resolves, Done
  <1>7. CASE sessW[p][s] = "timed_out"
    BY <1>1, <1>7 DEF Sweeps, SweepPC, Done
  <1> QED
    BY <1>1, <1>2, <1>3, <1>4, <1>5, <1>6, <1>7 DEF SessionWrite, SessionStatus, OpenStatus

\* ... and to a conversation row.
LEMMA WrittenConv ==
    ASSUME IInv, NEW p \in Procs, Done(p), NEW c \in Convs
    PROVE  /\ convW[p][c] = "transferred" =>
                /\ pc[p] = "finish"
                /\ c \in cut \/ Open(c) # {}
                     \/ \E s \in Sessions : ConvOf[s] = c /\ sessW[p][s] = "queued"
           /\ convW[p][c] = "active" => \E s \in Open(c) : sessW[p][s] \in Closing
           /\ convW[p][c] \in ConvWrite
  BY DEF IInv, TypeOK, TransactionOK, WritesConv, Done

LEMMA CommitLifecycle ==
    ASSUME IInv, NEW p \in Procs, Done(p), Commit(p)
    PROVE  Lifecycle
  <1> SUFFICES ASSUME NEW s \in Sessions, status'[s] # status[s]
               PROVE  <<status[s], status'[s]>> \in
                        {<<"absent", "queued">>, <<"queued", "claimed">>,
                         <<"queued", "timed_out">>, <<"claimed", "resolved">>,
                         <<"claimed", "returned">>}
    BY DEF Lifecycle
  <1>1. status'[s] = sessW[p][s] /\ sessW[p][s] \in SessionStatus
    BY DEF Commit
  <1> QED BY <1>1, WrittenSession DEF SessionStatus, OpenStatus

\* A commit leaves the sessions p closes closed, opens the one it inserts and no other.
LEMMA CommitOpen ==
    ASSUME IInv, NEW p \in Procs, Done(p), Commit(p), NEW s \in Sessions
    PROVE  status'[s] \in OpenStatus <=>
             \/ sessW[p][s] = "queued"
             \/ status[s] \in OpenStatus /\ sessW[p][s] \notin Closing
  BY WrittenSession DEF Commit, OpenStatus, Closing, SessionStatus

LEMMA CommitType ==
    ASSUME IInv, NEW p \in Procs, Done(p), Commit(p)
    PROVE  TypeOK'
  <1>1. TypeOK /\ AtPoint(p)
    BY DEF IInv, TransactionOK
  <1>2. convStatus' \in [Convs -> ConvStatus] /\ status' \in [Sessions -> SessionStatus]
    BY <1>1 DEF TypeOK, Commit
  <1>3. assignee' \in [Sessions -> Staff \cup {NoStaff}]
    BY <1>1 DEF TypeOK, Commit
  <1>4. replies' \subseteq Sessions \X Staff
    BY <1>1 DEF TypeOK, Commit, AtPoint
  <1>5. escalated' \subseteq Sessions /\ cut' \subseteq Convs
    BY <1>1 DEF TypeOK, Commit
  <1>6. UNCHANGED <<expired, crashes>>
    BY DEF Commit
  <1>7. /\ pc' \in [Procs -> PC] /\ cv' \in [Procs -> Convs \cup {NoConv}]
        /\ sn' \in [Procs -> Sessions \cup {NoSession}]
        /\ who' \in [Procs -> Staff \cup {NoStaff}]
        /\ goal' \in [Procs -> {"active", "closed"}]
    BY <1>1 DEF TypeOK, Commit, Release, PC
  <1>8. /\ convW' \in [Procs -> [Convs -> ConvWrite]]
        /\ sessW' \in [Procs -> [Sessions -> SessionWrite]]
    BY <1>1 DEF TypeOK, Commit, Release, ConvWrite, SessionWrite, NoConvWrites, NoSessionWrites
  <1> QED BY <1>1, <1>2, <1>3, <1>4, <1>5, <1>6, <1>7, <1>8 DEF TypeOK

\* The other transactions keep what they rely on: p wrote no row of theirs, and
\* the row lock on the conversation keeps p from opening or closing sessions there.
LEMMA CommitOthers ==
    ASSUME IInv, NEW p \in Procs, Done(p), Commit(p), NEW q \in Procs \ {p}
    PROVE  TransactionOK(q)'
  <1>1. /\ TypeOK /\ TransactionOK(q) /\ LocksExclusive
    BY DEF IInv
  <1>2. /\ pc'[q] = pc[q] /\ cv'[q] = cv[q] /\ sn'[q] = sn[q] /\ who'[q] = who[q]
        /\ goal'[q] = goal[q] /\ convW'[q] = convW[q] /\ sessW'[q] = sessW[q]
    BY <1>1 DEF TypeOK, Commit, Release
  <1>3. \A s \in Sessions : sessW[q][s] # "untouched" => sessW[p][s] = "untouched"
    BY <1>1 DEF LocksExclusive
  <1>4. \A c \in Convs : convW[q][c] # "untouched" => convW[p][c] = "untouched"
    BY <1>1 DEF LocksExclusive
  <1>5. \A s \in Sessions : sessW[p][s] = "untouched" =>
            status'[s] = status[s] /\ assignee'[s] = assignee[s]
    BY DEF Commit, SessionStatus, OpenStatus
  <1>6. cut \subseteq cut'
    BY DEF Commit
  <1>7. Reserves(q)'
    <2> SUFFICES ASSUME pc[q] \in {"transfer", "enqueue"}
                 PROVE  /\ sn[q] \in Sessions /\ ConvOf[sn[q]] = cv[q]
                        /\ status'[sn[q]] = "absent"
                        /\ \A r \in Procs \ {q} : sn'[r] # sn[q]
      BY <1>2 DEF Reserves
    <2>1. /\ sn[q] \in Sessions /\ ConvOf[sn[q]] = cv[q] /\ status[sn[q]] = "absent"
          /\ \A r \in Procs \ {q} : sn[r] # sn[q]
      BY <1>1 DEF TransactionOK, Reserves
    <2>2. sessW[p][sn[q]] = "untouched"
      BY <2>1, WrittenSession
    <2>3. \A r \in Procs \ {q} : sn'[r] # sn[q]
      BY <1>1, <2>1, HandoffAssumption DEF TypeOK, Commit, Release
    <2> QED BY <1>5, <2>1, <2>2, <2>3
  <1>8. AtPoint(q)'
    <2>1. pc[q] = "reply" =>
             /\ who[q] \in Staff /\ assignee'[sn[q]] = who[q]
             /\ status'[sn[q]] \in {"claimed", "resolved", "returned"}
      <3> SUFFICES ASSUME pc[q] = "reply"
                   PROVE  /\ who[q] \in Staff /\ assignee'[sn[q]] = who[q]
                          /\ status'[sn[q]] \in {"claimed", "resolved", "returned"}
        OBVIOUS
      <3>1. /\ sn[q] \in Sessions /\ who[q] \in Staff /\ assignee[sn[q]] = who[q]
            /\ status[sn[q]] \in {"claimed", "resolved", "returned"}
        BY <1>1 DEF TransactionOK, AtPoint
      <3>2. sessW[p][sn[q]] \in {"untouched", "resolved", "returned"}
        BY <3>1, WrittenSession
      <3> QED BY <3>1, <3>2 DEF Commit, SessionStatus, OpenStatus
    <2> QED BY <1>1, <1>2, <1>6, <2>1 DEF TransactionOK, AtPoint
  <1>9. ASSUME NEW c \in Convs PROVE WritesConv(q, c)'
    <2>1. WritesConv(q, c)
      BY <1>1 DEF TransactionOK
    <2>2. ASSUME convW[q][c] = "transferred", pc[q] = "finish", c \notin cut', Open(c) # {}
          PROVE  Open(c)' # {}
      <3>1. PICK s \in Sessions : ConvOf[s] = c /\ status[s] \in OpenStatus
        BY <2>2 DEF Open
      <3>2. sessW[p][s] \notin Closing
        BY <1>4, <1>6, <2>2, <3>1, WrittenSession DEF Closing
      <3> QED BY <3>1, <3>2, CommitOpen DEF Open
    <2>3. ASSUME convW[q][c] = "active"
          PROVE  \E s \in Open(c)' : sessW[q][s] \in Closing
      BY <1>3, <1>5, <2>1, <2>3 DEF WritesConv, Open, Closing
    <2> QED BY <1>2, <1>6, <2>1, <2>2, <2>3 DEF WritesConv
  <1>10. ASSUME NEW s \in Sessions PROVE Inserts(q, s)'
    <2> SUFFICES ASSUME sessW[q][s] = "queued"
                 PROVE  /\ pc[q] = "finish" /\ sn[q] = s /\ status'[s] = "absent"
                        /\ convW[q][ConvOf[s]] = "transferred" /\ Open(ConvOf[s])' = {}
      BY <1>2 DEF Inserts
    <2>1. /\ pc[q] = "finish" /\ sn[q] = s /\ status[s] = "absent"
          /\ convW[q][ConvOf[s]] = "transferred" /\ Open(ConvOf[s]) = {}
      BY <1>1 DEF TransactionOK, Inserts
    <2>2. status'[s] = "absent"
      BY <1>3, <1>5, <2>1
    <2>3. ASSUME NEW x \in Sessions, ConvOf[x] = ConvOf[s] PROVE status'[x] \notin OpenStatus
      <3>1. status[x] \notin OpenStatus
        BY <2>1, <2>3 DEF Open
      <3>2. sessW[p][x] # "queued"
        BY <1>4, <2>1, <2>3, WrittenSession, HandoffAssumption
      <3> QED BY <3>1, <3>2, CommitOpen
    <2> QED BY <2>1, <2>2, <2>3 DEF Open
  <1>11. ASSUME NEW s \in Sessions
         PROVE  Claims(q, s)' /\ Resolves(q, s)' /\ Sweeps(q, s)' /\ sessW'[q][s] # "absent"
    <2>1. Claims(q, s) /\ Resolves(q, s) /\ Sweeps(q, s) /\ sessW[q][s] # "absent"
      BY <1>1 DEF TransactionOK
    <2>2. Claims(q, s)'
      BY <1>2, <1>3, <1>5, <2>1 DEF Claims
    <2>3. Resolves(q, s)'
      BY <1>2, <1>3, <1>5, <1>6, <2>1 DEF Resolves
    <2>4. Sweeps(q, s)'
      BY <1>2, <1>3, <1>5, <1>6, <2>1 DEF Sweeps
    <2> QED BY <1>2, <2>1, <2>2, <2>3, <2>4
  <1> QED BY <1>7, <1>8, <1>9, <1>10, <1>11 DEF TransactionOK

LEMMA CommitInv ==
    ASSUME IInv, NEW p \in Procs, Done(p), Commit(p)
    PROVE  IInv'
  <1>1. TypeOK'
    BY CommitType
  <1>2. LocksExclusive'
    BY DEF IInv, TypeOK, LocksExclusive, Commit, Release, NoConvWrites, NoSessionWrites
  <1>3. TransactionOK(p)'
    BY DEF IInv, TypeOK, Commit, Release, TransactionOK, Reserves, AtPoint, WritesConv, Inserts,
       Claims, Resolves, Sweeps, NoConvWrites, NoSessionWrites, SweepPC
  <1>4. \A q \in Procs : TransactionOK(q)'
    BY <1>3, CommitOthers
  <1>5. OneOpenSession'
    BY WrittenSession, CommitOpen DEF IInv, OneOpenSession, Open
  <1>6. NobodyStranded'
    <2> SUFFICES ASSUME NEW c \in Convs, c \notin cut', convStatus'[c] = "transferred"
                 PROVE  Open(c)' # {}
      BY DEF NobodyStranded
    <2>1. c \notin cut
      BY DEF Commit
    <2>2. CASE \E s \in Sessions : ConvOf[s] = c /\ sessW[p][s] = "queued"
      BY <2>2, CommitOpen DEF Open
    <2>3. CASE ~ \E s \in Sessions : ConvOf[s] = c /\ sessW[p][s] = "queued"
      <3>1. Open(c) # {} /\ convW[p][c] \notin {"active", "closed"}
        <4>1. CASE convW[p][c] = "transferred"
          BY <2>1, <2>3, <4>1, WrittenConv
        <4>2. CASE convW[p][c] # "transferred"
          BY <2>1, <4>2 DEF IInv, NobodyStranded, Commit, ConvStatus
        <4> QED BY <4>1, <4>2
      <3>2. PICK s \in Sessions : ConvOf[s] = c /\ status[s] \in OpenStatus
        BY <3>1 DEF Open
      <3>3. sessW[p][s] \notin Closing
        BY <2>1, <3>1, <3>2, WrittenSession DEF Closing
      <3> QED BY <3>2, <3>3, CommitOpen DEF Open
    <2> QED BY <2>2, <2>3
  <1>7. OpenMeansTransferred'
    <2> SUFFICES ASSUME NEW c \in Convs, c \notin cut',
                        NEW s \in Sessions, ConvOf[s] = c, status'[s] \in OpenStatus
                 PROVE  convStatus'[c] = "transferred"
      BY DEF OpenMeansTransferred, Open
    <2>1. CASE sessW[p][s] = "queued"
      BY <2>1, WrittenSession DEF Commit, ConvStatus
    <2>2. CASE sessW[p][s] # "queued"
      <3>1. status[s] \in OpenStatus /\ sessW[p][s] \notin Closing
        BY <2>2, CommitOpen
      <3>2. c \notin cut /\ convStatus[c] = "transferred"
        BY <3>1 DEF IInv, OpenMeansTransferred, Open, Commit
      <3>3. convW[p][c] # "active"
        BY <3>1, WrittenConv DEF IInv, OneOpenSession, Open
      <3>4. ASSUME convW[p][c] = "closed" PROVE FALSE
        <4>1. sessW[p][s] \in SessionStatus
          BY <3>1, <3>4 DEF Commit, Open
        <4>2. sessW[p][s] = "claimed" /\ convW[p] = NoConvWrites
          BY <2>2, <3>1, <4>1, WrittenSession DEF SessionStatus, OpenStatus, Closing
        <4> QED BY <3>4, <4>2 DEF NoConvWrites
      <3> QED BY <3>2, <3>3, <3>4 DEF Commit, ConvStatus
    <2> QED BY <2>1, <2>2
  <1>8. EscalatedIffTimedOut'
    BY WrittenSession DEF IInv, EscalatedIffTimedOut, Commit, SessionStatus, OpenStatus
  <1>9. RepliesByAssignee'
    <2>1. ASSUME NEW x \in replies PROVE assignee'[x[1]] = x[2]
      <3>1. /\ x[1] \in Sessions /\ assignee[x[1]] = x[2]
            /\ status[x[1]] \in {"claimed", "resolved", "returned"}
        BY DEF IInv, TypeOK, RepliesByAssignee, AssignmentOK
      <3> QED BY <3>1, WrittenSession DEF Commit
    <2>2. ASSUME pc[p] = "reply" PROVE assignee'[sn[p]] = who[p]
      <3>1. sn[p] \in Sessions /\ assignee[sn[p]] = who[p]
        BY <2>2 DEF IInv, TransactionOK, AtPoint
      <3> QED BY <2>2, <3>1, WrittenSession DEF Commit
    <2> QED BY <2>1, <2>2 DEF RepliesByAssignee, Commit
  <1>10. AssignmentOK'
    <2>1. ASSUME NEW s \in Sessions, status'[s] = "claimed" PROVE assignee'[s] \in Staff
      BY <2>1, WrittenSession DEF IInv, AssignmentOK, Commit, SessionStatus, OpenStatus
    <2>2. ASSUME NEW s \in Sessions, status[s] \in {"claimed", "resolved", "returned"}
          PROVE  status'[s] \in {"claimed", "resolved", "returned"}
      BY <2>2, WrittenSession DEF Commit, SessionStatus, OpenStatus
    <2>3. ASSUME pc[p] = "reply"
          PROVE  sn[p] \in Sessions /\ status[sn[p]] \in {"claimed", "resolved", "returned"}
      BY <2>3 DEF IInv, TransactionOK, AtPoint
    <2>4. \A x \in replies : x[1] \in Sessions /\ status[x[1]] \in {"claimed", "resolved", "returned"}
      BY DEF IInv, TypeOK, AssignmentOK
    <2> QED BY <2>1, <2>2, <2>3, <2>4 DEF AssignmentOK, Commit
  <1> QED BY <1>1, <1>2, <1>4, <1>5, <1>6, <1>7, <1>8, <1>9, <1>10 DEF IInv

-----------------------------------------------------------------------------
(* Every step, and the theorems *)

LEMMA RollbackInv ==
    ASSUME IInv, NEW p \in Procs, Rollback(p) PROVE IInv'
  BY ReleaseInv DEF Rollback, history, IInv, TypeOK

LEMMA CrashInv ==
    ASSUME IInv, NEW p \in Procs, Crash(p) PROVE IInv'
  BY ReleaseInv DEF Crash, IInv, TypeOK

LEMMA PickupTimeoutInv ==
    ASSUME IInv, NEW s \in Sessions, PickupTimeout(s) PROVE IInv'
  <1> USE DEF PickupTimeout, db, locals, held, history
  <1>1. TypeOK'
    BY DEF IInv, TypeOK
  <1>2. LocksExclusive'
    BY DEF IInv, LocksExclusive
  <1>3. \A p \in Procs : TransactionOK(p)'
    BY DEF IInv, TransactionOK, Reserves, AtPoint, WritesConv, Inserts, Claims, Resolves,
       Sweeps, Open
  <1>4. (/\ AssignmentOK /\ OneOpenSession /\ NobodyStranded /\ OpenMeansTransferred
         /\ EscalatedIffTimedOut /\ RepliesByAssignee)'
    BY DEF IInv, AssignmentOK, OneOpenSession, NobodyStranded, OpenMeansTransferred,
       EscalatedIffTimedOut, RepliesByAssignee, Open
  <1> QED BY <1>1, <1>2, <1>3, <1>4 DEF IInv

LEMMA TurnStepInv ==
    ASSUME IInv, NEW t \in Turns, TurnStep(t) PROVE IInv'
  <1> t \in Procs
    BY DEF Procs
  <1>1. CASE TurnGate(t) \/ TurnFinish(t)
    BY <1>1, CommitInv DEF TurnGate, TurnFinish, Done
  <1>2. CASE \E s \in Sessions : TurnHandoff(t, s)
    BY <1>2, TurnHandoffInv
  <1> QED
    BY <1>1, <1>2, TurnAnswerInv, TurnMetadataInv, TurnTransferInv, TurnEnqueueInv DEF TurnStep

LEMMA RequestStepInv ==
    ASSUME IInv, NEW r \in Requests, RequestStep(r) PROVE IInv'
  <1> r \in Procs
    BY DEF Procs
  <1>1. CASE Reply(r) \/ RequestCommit(r)
    BY <1>1, CommitInv DEF Reply, RequestCommit, Done
  <1>2. CASE ClaimConflict(r) \/ CloseConflict(r)
    BY <1>2, RollbackInv DEF ClaimConflict, CloseConflict
  <1>3. CASE \E outcome \in {"resolved", "returned"}, next \in {"active", "closed"} :
               Close(r, outcome, next)
    BY <1>3, CloseInv
  <1> QED BY <1>1, <1>2, <1>3, ClaimInv, ReadConvInv, WriteConvInv DEF RequestStep

LEMMA SweepStepInv ==
    ASSUME IInv, NEW w \in Sweepers, SweepStep(w) PROVE IInv'
  <1> w \in Procs
    BY DEF Procs
  <1>1. CASE SweepCommit(w)
    BY <1>1, CommitInv DEF SweepCommit, Done
  <1>2. CASE \E s \in Sessions : SweepEscalate(w, s)
    BY <1>2, SweepEscalateInv
  <1> QED BY <1>1, <1>2, SweepExpireInv, SweepHandBackInv DEF SweepStep

LEMMA StutterInv ==
    ASSUME IInv, UNCHANGED vars PROVE IInv'
  <1> USE DEF vars, db, locals, held, history
  <1>1. (TypeOK /\ LocksExclusive /\ AssignmentOK)'
    BY DEF IInv, TypeOK, LocksExclusive, AssignmentOK
  <1>2. \A p \in Procs : TransactionOK(p)'
    BY DEF IInv, TransactionOK, Reserves, AtPoint, WritesConv, Inserts, Claims, Resolves,
       Sweeps, Open
  <1>3. (/\ OneOpenSession /\ NobodyStranded /\ OpenMeansTransferred
         /\ EscalatedIffTimedOut /\ RepliesByAssignee)'
    BY DEF IInv, OneOpenSession, NobodyStranded, OpenMeansTransferred,
       EscalatedIffTimedOut, RepliesByAssignee, Open
  <1> QED BY <1>1, <1>2, <1>3 DEF IInv

\* The committed tables and the open transactions fit together in every
\* reachable state: IInv holds initially and every step preserves it.
THEOREM Inductive == Spec => []IInv
  <1>1. Init => IInv
    BY InitInv
  <1>2. IInv /\ [Next]_vars => IInv'
    <2> SUFFICES ASSUME IInv, [Next]_vars PROVE IInv'
      OBVIOUS
    <2>1. CASE \E t \in Turns : TurnStep(t) \/ \E c \in Convs : TurnStart(t, c)
      BY <2>1, TurnStepInv, TurnStartInv
    <2>2. CASE \E r \in Requests :
                  \/ RequestStep(r)
                  \/ \E s \in Sessions, a \in Staff : ClaimStart(r, s, a) \/ AssigneeStart(r, s, a)
                  \/ \E c \in Convs : ArchiveStart(r, c)
      BY <2>2, RequestStepInv, ClaimStartInv, AssigneeStartInv, ArchiveStartInv
    <2>3. CASE \E w \in Sweepers : SweepStep(w) \/ SweepSelect(w)
      BY <2>3, SweepStepInv, SweepSelectInv
    <2>4. CASE \E s \in Sessions : PickupTimeout(s)
      BY <2>4, PickupTimeoutInv
    <2>5. CASE \E p \in Procs : Crash(p) \/ DeadlockVictim(p)
      BY <2>5, CrashInv, RollbackInv DEF DeadlockVictim
    <2>6. CASE UNCHANGED vars
      BY <2>6, StutterInv
    <2> QED BY <2>1, <2>2, <2>3, <2>4, <2>5, <2>6 DEF Next
  <1> QED BY <1>1, <1>2, PTL DEF Spec

\* Type correctness of rows, transactions and history.
THEOREM TypeCorrect == Spec => []TypeOK
  BY Inductive, PTL DEF IInv

\* However turns, staff and sweepers interleave, a conversation never has two
\* sessions that staff could work on.
THEOREM AtMostOneOpen == Spec => []OneOpenSession
  BY Inductive, PTL DEF IInv

\* A gated customer always has a session somebody can claim, holds, or that
\* will time out, unless the customer archived the conversation under it.
THEOREM NotStranded == Spec => []NobodyStranded
  BY Inductive, PTL DEF IInv

\* As long as a session is open the gate keeps the AI out of its conversation.
THEOREM GatedWhileOpen == Spec => []OpenMeansTransferred
  BY Inductive, PTL DEF IInv

\* No ticket without a timeout, no timeout without a ticket.
THEOREM TicketPerTimeout == Spec => []EscalatedIffTimedOut
  BY Inductive, PTL DEF IInv

\* Only the agent a session is assigned to ever speaks in it.
THEOREM OneVoice == Spec => []RepliesByAssignee
  BY Inductive, PTL DEF IInv

-----------------------------------------------------------------------------
(***************************************************************************)
(* Refinement: what a session may go through, and that the two tables,     *)
(* seen through OwnerOf, follow HandoffOwnership: one party is responsible *)
(* for a conversation at a time and every commit moves it the way the      *)
(* abstract specification says.                                            *)
(***************************************************************************)

LEMMA ChooseOnly == ASSUME NEW S, NEW x, S = {x} PROVE (CHOOSE y \in S : TRUE) = x
  OBVIOUS

\* Only a commit changes what is committed.
LEMMA CommitOrNothing ==
    ASSUME Next
    PROVE  \/ UNCHANGED <<db, cut>>
           \/ \E p \in Procs : Done(p) /\ Commit(p)
  <1> DEFINE Quiet == UNCHANGED <<db, cut>>
  <1>0. \A p, from, to : Goto(p, from, to) \/ (Release(p) /\ UNCHANGED <<db, cut>>) \/ Rollback(p) => Quiet
    BY DEF Goto, Rollback, history
  <1> HIDE DEF Quiet
  <1>1. ASSUME NEW t \in Turns, TurnStep(t) \/ \E c \in Convs : TurnStart(t, c)
        PROVE  Quiet \/ (Done(t) /\ Commit(t))
    <2>1. CASE TurnGate(t) \/ TurnFinish(t)
      BY <2>1 DEF TurnGate, TurnFinish, Done
    <2>2. CASE ~(TurnGate(t) \/ TurnFinish(t))
      BY <1>0, <1>1, <2>2 DEF TurnStep, TurnStart, TurnAnswer, TurnMetadata, TurnHandoff,
         TurnTransfer, TurnEnqueue
    <2> QED BY <2>1, <2>2
  <1>2. ASSUME NEW r \in Requests,
               \/ RequestStep(r)
               \/ \E s \in Sessions, a \in Staff : ClaimStart(r, s, a) \/ AssigneeStart(r, s, a)
               \/ \E c \in Convs : ArchiveStart(r, c)
        PROVE  Quiet \/ (Done(r) /\ Commit(r))
    <2>1. CASE Reply(r) \/ RequestCommit(r)
      BY <2>1 DEF Reply, RequestCommit, Done
    <2>2. CASE RequestStep(r) /\ ~(Reply(r) \/ RequestCommit(r))
      BY <1>0, <2>2 DEF RequestStep, Claim, ClaimConflict, Close, CloseConflict, ReadConv,
         WriteConv
    <2>3. CASE \/ \E s \in Sessions, a \in Staff : ClaimStart(r, s, a) \/ AssigneeStart(r, s, a)
               \/ \E c \in Convs : ArchiveStart(r, c)
      BY <1>0, <2>3 DEF ClaimStart, AssigneeStart, ArchiveStart
    <2> QED BY <1>2, <2>1, <2>2, <2>3
  <1>3. ASSUME NEW w \in Sweepers, SweepStep(w) \/ SweepSelect(w)
        PROVE  Quiet \/ (Done(w) /\ Commit(w))
    <2>1. CASE SweepCommit(w)
      BY <2>1 DEF SweepCommit, Done
    <2>2. CASE ~SweepCommit(w)
      BY <1>0, <1>3, <2>2 DEF SweepStep, SweepSelect, SweepEscalate, SweepExpire, SweepHandBack
    <2> QED BY <2>1, <2>2
  <1>4. ASSUME \/ \E s \in Sessions : PickupTimeout(s)
               \/ \E p \in Procs : Crash(p) \/ DeadlockVictim(p)
        PROVE  Quiet
    BY <1>0, <1>4 DEF PickupTimeout, Crash, DeadlockVictim, Quiet, history
  <1>5. Quiet \/ \E p \in Procs : Done(p) /\ Commit(p)
    BY <1>1, <1>2, <1>3, <1>4 DEF Next, Procs
  <1> QED BY <1>5 DEF Quiet

\* Nobody takes over a claim, a closed session stays closed, and it is closed
\* by the path its status says - for every interleaving of transactions.
THEOREM Lifecycles == Spec => SessionLifecycle
  <1>1. IInv /\ [Next]_vars => [Lifecycle]_vars
    <2> SUFFICES ASSUME IInv, Next PROVE Lifecycle
      OBVIOUS
    <2>1. CASE UNCHANGED <<db, cut>>
      BY <2>1 DEF db, Lifecycle
    <2>2. CASE \E p \in Procs : Done(p) /\ Commit(p)
      BY <2>2, CommitLifecycle
    <2> QED BY <2>1, <2>2, CommitOrNothing
  <1> QED BY <1>1, Inductive, PTL DEF Spec, SessionLifecycle

-----------------------------------------------------------------------------
(* The owner, case by case *)

LEMMA OwnerCases ==
    ASSUME IInv, NEW c \in Convs
    PROVE  /\ c \in cut => OwnerOf(c) = "abandoned"
           /\ c \notin cut /\ Open(c) = {} => OwnerOf(c) \in {"active", "closed"}
           /\ c \notin cut => (convStatus[c] # "transferred" => OwnerOf(c) = convStatus[c])
           /\ \A s \in Open(c) : c \notin cut /\ status[s] = "queued" => OwnerOf(c) = "queue"
           /\ \A s \in Open(c) : c \notin cut /\ status[s] = "claimed" =>
                OwnerOf(c) = assignee[s] /\ OwnerOf(c) \in Staff
  <1>1. ASSUME NEW s \in Open(c), c \notin cut
        PROVE  /\ Open(c) = {s} /\ convStatus[c] = "transferred"
               /\ s \in Sessions /\ status[s] \in OpenStatus
    BY <1>1 DEF IInv, OneOpenSession, OpenMeansTransferred, Open
  <1>2. ASSUME c \notin cut, Open(c) = {} PROVE OwnerOf(c) \in {"active", "closed"}
    BY <1>2 DEF IInv, TypeOK, NobodyStranded, OwnerOf, ConvStatus
  <1>3. ASSUME NEW s \in Open(c), c \notin cut, status[s] = "queued" PROVE OwnerOf(c) = "queue"
    BY <1>1, <1>3 DEF OwnerOf, ClaimedIn
  <1>4. ASSUME NEW s \in Open(c), c \notin cut, status[s] = "claimed"
        PROVE  OwnerOf(c) = assignee[s] /\ assignee[s] \in Staff
    <2>1. ClaimedIn(c) = {s}
      BY <1>1, <1>4 DEF ClaimedIn
    <2>2. (CHOOSE x \in ClaimedIn(c) : TRUE) = s
      BY <2>1, ChooseOnly
    <2> QED BY <1>1, <1>4, <2>1, <2>2 DEF OwnerOf, IInv, AssignmentOK
  <1> QED BY <1>2, <1>3, <1>4 DEF OwnerOf

\* The same in the state after the step.
LEMMA OwnerCasesNext ==
    ASSUME IInv', NEW c \in Convs
    PROVE  /\ c \in cut' => OwnerOf(c)' = "abandoned"
           /\ c \notin cut' => (convStatus'[c] # "transferred" => OwnerOf(c)' = convStatus'[c])
           /\ \A s \in Open(c)' : c \notin cut' /\ status'[s] = "queued" => OwnerOf(c)' = "queue"
           /\ \A s \in Open(c)' : c \notin cut' /\ status'[s] = "claimed" =>
                OwnerOf(c)' = assignee'[s]
  <1>1. ASSUME NEW s \in Open(c)', c \notin cut'
        PROVE  /\ Open(c)' = {s} /\ convStatus'[c] = "transferred"
               /\ s \in Sessions /\ status'[s] \in OpenStatus
    BY <1>1 DEF IInv, OneOpenSession, OpenMeansTransferred, Open
  <1>3. ASSUME NEW s \in Open(c)', c \notin cut', status'[s] = "queued" PROVE OwnerOf(c)' = "queue"
    BY <1>1, <1>3 DEF OwnerOf, ClaimedIn
  <1>4. ASSUME NEW s \in Open(c)', c \notin cut', status'[s] = "claimed"
        PROVE  OwnerOf(c)' = assignee'[s]
    <2>1. ClaimedIn(c)' = {s}
      BY <1>1, <1>4 DEF ClaimedIn
    <2>2. (CHOOSE x \in ClaimedIn(c)' : TRUE) = s
      BY <2>1, ChooseOnly
    <2> QED BY <1>1, <1>4, <2>1, <2>2 DEF OwnerOf
  <1> QED BY <1>3, <1>4 DEF OwnerOf

-----------------------------------------------------------------------------
(* What a commit does to the owner *)

LEMMA OwnerUnchanged ==
    ASSUME IInv, IInv', NEW p \in Procs, Done(p), Commit(p), NEW c \in Convs,
           convW[p][c] \notin ConvStatus \/ convW[p][c] = convStatus[c],
           \A s \in Sessions : ConvOf[s] = c => sessW[p][s] = "untouched"
    PROVE  OwnerOf(c)' = OwnerOf(c)
  <1>1. convStatus'[c] = convStatus[c]
    BY DEF Commit
  <1>2. \A s \in Sessions : ConvOf[s] = c => status'[s] = status[s] /\ assignee'[s] = assignee[s]
    BY DEF Commit, SessionStatus, OpenStatus
  <1>3. Open(c)' = Open(c)
    BY <1>2 DEF Open
  <1>4. CASE c \in cut
    BY <1>4, OwnerCases, OwnerCasesNext DEF Commit
  <1>5. CASE c \notin cut /\ Open(c) = {}
    <2>1. c \notin cut' /\ convStatus[c] # "transferred"
      BY <1>5 DEF Commit, IInv, NobodyStranded
    <2> QED BY <1>1, <1>5, <2>1, OwnerCases, OwnerCasesNext
  <1>6. ASSUME c \notin cut, NEW s \in Open(c) PROVE OwnerOf(c)' = OwnerOf(c)
    <2>1. /\ s \in Sessions /\ ConvOf[s] = c /\ status[s] \in OpenStatus
          /\ convStatus[c] = "transferred"
      BY <1>6 DEF Open, IInv, OpenMeansTransferred
    <2>2. convW[p][c] # "closed"
      BY <2>1 DEF ConvStatus
    <2>3. c \notin cut' /\ s \in Open(c)'
      BY <1>3, <1>6, <2>2 DEF Commit
    <2>4. status'[s] = status[s] /\ assignee'[s] = assignee[s] /\ status[s] \in {"queued", "claimed"}
      BY <1>2, <2>1 DEF OpenStatus
    <2> QED BY <1>6, <2>3, <2>4, OwnerCases, OwnerCasesNext
  <1> QED BY <1>4, <1>5, <1>6

\* An archived handoff is out of everybody's hands for good.
LEMMA OwnerCut ==
    ASSUME IInv, IInv', NEW p \in Procs, Commit(p), NEW c \in Convs, c \in cut
    PROVE  OwnerOf(c)' = OwnerOf(c)
  BY OwnerCases, OwnerCasesNext DEF Commit

\* Turns and requests write the rows of one conversation only.
LEMMA OneConversation ==
    ASSUME IInv, NEW p \in Procs, Done(p), pc[p] # "escalate", NEW c \in Convs,
           \A s \in Sessions : sessW[p][s] # "claimed", c # cv[p]
    PROVE  /\ convW[p][c] \notin ConvStatus
           /\ \A s \in Sessions : ConvOf[s] = c => sessW[p][s] = "untouched"
  <1>1. WritesConv(p, c) /\ \A s \in Sessions : Resolves(p, s)
    BY DEF IInv, TransactionOK
  <1>2. ASSUME NEW s \in Sessions, ConvOf[s] = c PROVE sessW[p][s] = "untouched"
    <2>1. sessW[p][s] \notin {"resolved", "returned"}
      BY <1>1, <1>2 DEF Resolves
    <2>2. sessW[p][s] # "queued"
      <3>1. \A d \in Convs : convW[p][d] = "transferred" => cv[p] = d
        BY DEF IInv, TransactionOK, WritesConv
      <3> QED BY <1>2, <3>1, WrittenSession
    <2> QED BY <2>1, <2>2, WrittenSession
  <1>3. convW[p][c] # "active"
    BY <1>1, <1>2 DEF WritesConv, Open, Closing
  <1> QED BY <1>1, <1>2, <1>3 DEF WritesConv, ConvStatus

LEMMA OnlyOne ==
    ASSUME NEW c \in Convs, NEW from, OwnerOf(c) \in from,
           \A d \in Convs \ {c} : OwnerOf(d)' = OwnerOf(d)
    PROVE  Ownership!Move(c, from, OwnerOf(c)')
  BY DEF Ownership!Move, owner

LEMMA SweepCommits ==
    ASSUME IInv, IInv', NEW p \in Procs, Done(p), Commit(p), pc[p] = "escalate"
    PROVE  [Ownership!Next]_owner
  <1> DEFINE C == {c \in Convs \ cut : \E s \in Sessions : ConvOf[s] = c /\ sessW[p][s] = "timed_out"}
  <1>1. ASSUME NEW c \in C PROVE OwnerOf(c) = "queue" /\ OwnerOf(c)' = "active"
    <2>1. PICK s \in Sessions : ConvOf[s] = c /\ sessW[p][s] = "timed_out"
      OBVIOUS
    <2>2. status[s] = "queued" /\ convW[p][c] = "active"
      BY <2>1, WrittenSession
    <2>3. s \in Open(c)
      BY <2>1, <2>2 DEF Open, OpenStatus
    <2>4. c \notin cut' /\ convStatus'[c] = "active"
      BY <2>2 DEF Commit, ConvStatus
    <2> QED BY <2>2, <2>3, <2>4, OwnerCases, OwnerCasesNext
  <1>2. ASSUME NEW c \in Convs \ C PROVE OwnerOf(c)' = OwnerOf(c)
    <2>1. CASE c \in cut
      BY <2>1, OwnerCut
    <2>2. CASE c \notin cut
      <3>1. \A s \in Sessions : ConvOf[s] = c => sessW[p][s] = "untouched"
        BY <2>2, WrittenSession
      <3>2. WritesConv(p, c)
        BY DEF IInv, TransactionOK
      <3>3. convW[p][c] \notin ConvStatus
        BY <3>1, <3>2 DEF WritesConv, ConvStatus, Open, Closing
      <3> QED BY <3>1, <3>3, OwnerUnchanged
    <2> QED BY <2>1, <2>2
  <1>3. CASE C = {}
    BY <1>2, <1>3 DEF owner
  <1>4. CASE C # {}
    <2>1. Ownership!TimeOut(C)
      BY <1>1, <1>2, <1>4 DEF Ownership!TimeOut, owner
    <2>2. C \in SUBSET Convs
      OBVIOUS
    <2> QED BY <2>1, <2>2 DEF Ownership!Next
  <1> QED BY <1>3, <1>4

LEMMA TurnCommits ==
    ASSUME IInv, IInv', NEW p \in Procs, Done(p), Commit(p), pc[p] \in {"gate", "reply", "finish"}
    PROVE  [Ownership!Next]_owner
  <1>1. \A s \in Sessions : sessW[p][s] # "claimed"
    BY WrittenSession
  <1>2. \A d \in Convs \ {cv[p]} : OwnerOf(d)' = OwnerOf(d)
    BY <1>1, OneConversation, OwnerUnchanged
  <1>3. CASE cv[p] \notin Convs
    BY <1>2, <1>3 DEF owner
  <1>4. ASSUME NEW c \in Convs, c = cv[p]
        PROVE  \/ OwnerOf(c)' = OwnerOf(c)
               \/ OwnerOf(c) \in {"active", "closed"} /\ OwnerOf(c)' = "queue"
    <2>1. CASE c \in cut
      BY <2>1, OwnerCut
    <2>2. ASSUME c \notin cut, NEW s \in Sessions, ConvOf[s] = c, sessW[p][s] = "queued"
          PROVE  OwnerOf(c) \in {"active", "closed"} /\ OwnerOf(c)' = "queue"
      <3>1. convW[p][c] = "transferred" /\ Open(c) = {}
        BY <2>2, WrittenSession
      <3>2. c \notin cut' /\ status'[s] = "queued" /\ s \in Open(c)'
        BY <2>2, <3>1 DEF Commit, Open, SessionStatus, OpenStatus
      <3> QED BY <2>2, <3>1, <3>2, OwnerCases, OwnerCasesNext
    <2>3. ASSUME c \notin cut, \A s \in Sessions : ConvOf[s] = c => sessW[p][s] # "queued"
          PROVE  OwnerOf(c)' = OwnerOf(c)
      <3>1. \A s \in Sessions : ConvOf[s] = c => sessW[p][s] = "untouched"
        BY <2>3, WrittenSession
      <3>2. WritesConv(p, c)
        BY DEF IInv, TransactionOK
      <3>3. convW[p][c] \notin {"active", "closed"}
        BY <3>1, <3>2 DEF WritesConv, Open, Closing
      <3>4. convW[p][c] = "transferred" => convStatus[c] = "transferred"
        BY <2>3, WrittenConv DEF IInv, OpenMeansTransferred
      <3> QED BY <3>1, <3>3, <3>4, OwnerUnchanged DEF ConvStatus
    <2> QED BY <2>1, <2>2, <2>3
  <1>5. ASSUME NEW c \in Convs, c = cv[p], OwnerOf(c)' # OwnerOf(c) PROVE Ownership!Next
    BY <1>2, <1>4, <1>5, OnlyOne DEF Ownership!Next, Ownership!Transfer
  <1> QED BY <1>2, <1>3, <1>5 DEF owner

LEMMA RequestCommits ==
    ASSUME IInv, IInv', NEW p \in Procs, Done(p), Commit(p), pc[p] = "commit"
    PROVE  [Ownership!Next]_owner
  <1>1. ASSUME NEW s \in Sessions, sessW[p][s] = "claimed"
        PROVE  [Ownership!Next]_owner
    <2> DEFINE c == ConvOf[s]
    <2>1. c \in Convs
      BY HandoffAssumption
    <2>2. status[s] = "queued" /\ who[p] \in Staff /\ convW[p] = NoConvWrites
      BY <1>1, WrittenSession
    <2>3. \A x \in Sessions : sessW[p][x] = "claimed" => x = s
      BY <1>1 DEF IInv, TransactionOK, Claims
    <2>4. ASSUME NEW d \in Convs, d # c \/ d \in cut PROVE OwnerOf(d)' = OwnerOf(d)
      <3>1. CASE d \in cut
        BY <3>1, OwnerCut
      <3>2. CASE d \notin cut
        <4>1. \A x \in Sessions : ConvOf[x] = d => sessW[p][x] = "untouched"
          BY <2>2, <2>3, <2>4, <3>2, WrittenSession DEF NoConvWrites
        <4> QED BY <2>2, <4>1, OwnerUnchanged DEF NoConvWrites, ConvStatus
      <3> QED BY <3>1, <3>2
    <2>5. CASE c \in cut
      BY <2>4, <2>5 DEF owner
    <2>6. CASE c \notin cut
      <3>1. s \in Open(c) /\ OwnerOf(c) = "queue"
        BY <2>1, <2>2, <2>6, OwnerCases DEF Open, OpenStatus
      <3>2. status'[s] = "claimed" /\ assignee'[s] = who[p] /\ c \notin cut'
        BY <1>1, <2>2, <2>6 DEF Commit, SessionStatus, OpenStatus, NoConvWrites
      <3>3. OwnerOf(c)' = who[p]
        BY <2>1, <3>2, OwnerCasesNext DEF Open, OpenStatus
      <3>4. Ownership!Claim(c, who[p])
        BY <2>1, <2>4, <3>1, <3>3, OnlyOne DEF Ownership!Claim
      <3> QED BY <2>1, <2>2, <3>4 DEF Ownership!Next
    <2> QED BY <2>5, <2>6
  <1>2. ASSUME \A s \in Sessions : sessW[p][s] # "claimed"
        PROVE  [Ownership!Next]_owner
    <2>1. \A d \in Convs \ {cv[p]} : OwnerOf(d)' = OwnerOf(d)
      BY <1>2, OneConversation, OwnerUnchanged
    <2>2. CASE cv[p] \notin Convs
      BY <2>1, <2>2 DEF owner
    <2>3. ASSUME NEW c \in Convs, c = cv[p], c \notin cut
          PROVE  \/ OwnerOf(c)' = OwnerOf(c)
                 \/ OwnerOf(c) \in Staff /\ OwnerOf(c)' \in {"active", "closed"}
                 \/ OwnerOf(c) = "active" /\ OwnerOf(c)' = "closed"
                 \/ OwnerOf(c) \in {"queue"} \cup Staff /\ OwnerOf(c)' = "abandoned"
      <3>1. ASSUME NEW s \in Sessions, ConvOf[s] = c, sessW[p][s] \in {"resolved", "returned"}
            PROVE  OwnerOf(c) \in Staff /\ OwnerOf(c)' \in {"active", "closed"}
        <4>1. status[s] = "claimed" /\ convW[p][c] \in {"active", "closed"}
          BY <2>3, <3>1, WrittenSession
        <4>2. s \in Open(c) /\ Open(c) \subseteq {s}
          BY <3>1, <4>1 DEF Open, OpenStatus, IInv, OneOpenSession
        <4>3. c \notin cut' /\ convStatus'[c] \in {"active", "closed"}
          BY <2>3, <3>1, <4>1, <4>2 DEF Commit, ConvStatus, SessionStatus
        <4> QED BY <2>3, <4>1, <4>2, <4>3, OwnerCases, OwnerCasesNext
      <3>2. ASSUME \A s \in Sessions : ConvOf[s] = c => sessW[p][s] \notin {"resolved", "returned"}
            PROVE  \/ OwnerOf(c)' = OwnerOf(c)
                   \/ OwnerOf(c) = "active" /\ OwnerOf(c)' = "closed"
                   \/ OwnerOf(c) \in {"queue"} \cup Staff /\ OwnerOf(c)' = "abandoned"
        <4>1. \A s \in Sessions : ConvOf[s] = c => sessW[p][s] = "untouched"
          BY <1>2, <3>2, WrittenSession
        <4>2. convW[p][c] \notin {"active", "transferred"}
          BY <4>1, WrittenConv DEF Open, Closing
        <4>3. CASE convW[p][c] # "closed"
          BY <4>1, <4>2, <4>3, OwnerUnchanged DEF ConvStatus
        <4>4. CASE convW[p][c] = "closed" /\ Open(c) = {}
          <5>1. c \notin cut' /\ convStatus'[c] = "closed"
            BY <2>3, <4>4 DEF Commit, ConvStatus
          <5> QED BY <2>3, <4>4, <5>1, OwnerCases, OwnerCasesNext
        <4>5. ASSUME convW[p][c] = "closed", NEW s \in Open(c)
              PROVE  OwnerOf(c) \in {"queue"} \cup Staff /\ OwnerOf(c)' = "abandoned"
          <5>1. s \in Sessions /\ ConvOf[s] = c /\ status[s] \in OpenStatus
            BY DEF Open
          <5>2. c \in cut'
            BY <4>1, <4>5, <5>1 DEF Commit, SessionStatus, OpenStatus
          <5> QED BY <2>3, <5>1, <5>2, OwnerCases, OwnerCasesNext DEF OpenStatus
        <4> QED BY <4>3, <4>4, <4>5
      <3> QED BY <3>1, <3>2
    <2>4. ASSUME NEW c \in Convs, c = cv[p], OwnerOf(c)' # OwnerOf(c) PROVE Ownership!Next
      <3>1. c \notin cut
        BY <2>4, OwnerCut
      <3>2. \A from : OwnerOf(c) \in from => Ownership!Move(c, from, OwnerOf(c)')
        BY <2>1, <2>4, OnlyOne
      <3> QED
        BY <2>3, <2>4, <3>1, <3>2
        DEF Ownership!Next, Ownership!Return, Ownership!Archive, Ownership!Abandon
    <2> QED BY <2>1, <2>2, <2>4 DEF owner
  <1> QED BY <1>1, <1>2

\* Whatever the number of conversations, workers and agents, the two tables
\* implement HandoffOwnership: responsibility for a customer is never held by
\* nobody or by two, and never skips the queue.
THEOREM Implements == Spec => ImplementsOwnership
  <1>1. Init => Ownership!Init
    <2>1. ASSUME Init, NEW c \in Convs PROVE OwnerOf(c) = "active"
      BY <2>1, InitInv, OwnerCases DEF Init
    <2> QED BY <2>1 DEF Ownership!Init, owner
  <1>2. IInv /\ IInv' /\ [Next]_vars => [Ownership!Next]_owner
    <2> SUFFICES ASSUME IInv, IInv', [Next]_vars
                 PROVE  [Ownership!Next]_owner
      OBVIOUS
    <2>1. CASE UNCHANGED <<db, cut>> \/ UNCHANGED vars
      <3>1. UNCHANGED <<convStatus, status, assignee, cut>>
        BY <2>1 DEF db, vars, history
      <3>2. ASSUME NEW c \in Convs PROVE OwnerOf(c)' = OwnerOf(c)
        BY <3>1 DEF OwnerOf, ClaimedIn, Open
      <3> QED BY <3>2 DEF owner
    <2>2. ASSUME NEW p \in Procs, Done(p), Commit(p)
          PROVE  [Ownership!Next]_owner
      BY <2>2, SweepCommits, TurnCommits, RequestCommits DEF Done
    <2> QED BY <2>1, <2>2, CommitOrNothing
  <1> QED
    BY <1>1, <1>2, Inductive, PTL DEF Spec, ImplementsOwnership, Ownership!Spec
=============================================================================
