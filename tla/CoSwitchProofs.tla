--------------------------- MODULE CoSwitchProofs ---------------------------
(***************************************************************************)
(* Proofs about CoSwitch, for every set of co-expressions, any signals and *)
(* any limit on threads: an inductive invariant, IInv, which says what     *)
(* holds at each place that a thread can be at, and with it CoSwitch's     *)
(* safety properties; and CoSwitch implements Coroutine.  There is one     *)
(* lemma for every action of Next.                                         *)
(***************************************************************************)
EXTENDS CoSwitch, TLAPS

\* Control is neither split nor lost: there is one token, held or posted.
Exclusive ==
  /\ \E c \in Coexpr : Control(c)
  /\ \A s, t \in Coexpr : Control(s) /\ Control(t) => s = t

\* A semaphore counts to one, and only for a thread that has still to wait.
Semaphores ==
  \A c \in Coexpr :
    /\ sema[c] \in {0, 1}
    /\ sema[c] = 1 => pc[c] \in {"wait", "start"}

\* A co-expression without a thread has no context; one with a thread has.
Contexts ==
  /\ Main \in block
  /\ pc[Main] # "none"
  /\ hasActstk[Main]
  /\ ctx[Main] <=> inited
  /\ ~inited => pc[Main] \in {"run", "setup"}
  /\ \A c \in Coexpr \ {Main} :
       /\ ctx[c] <=> pc[c] # "none"
       /\ pc[c] = "none" => alive[c] = "unset"
       /\ pc[c] # "none" => inited /\ c \in block /\ hasActstk[c]
       /\ c \notin block => ~hasActstk[c]
       /\ hasActstk[c] /\ pc[c] = "none" =>
            \E s \in Coexpr : pc[s] = "setup" /\ target[s] = c /\ first[s]

\* The flag is written before it matters, and cleared only by a coclean.
Flags ==
  \A c \in Coexpr :
    /\ pc[c] \notin {"none", "start"} /\ inited => alive[c] # "unset"
    /\ pc[c] = "start" => \/ sema[c] = 1 /\ alive[c] = "yes"
                          \/ \E s \in Coexpr : pc[s] \in {"mark", "post"}
                                               /\ target[s] = c
    /\ pc[c] \in {"run", "setup", "mark", "post", "kill", "join"} =>
         alive[c] # "no"
    /\ pc[c] = "dead" => alive[c] = "no"
    /\ alive[c] = "no" =>
         \E s \in Coexpr : pc[s] \in {"kill", "join"} /\ target[s] = c

\* &current and the signal belong to the thread that has control.
Globals ==
  \A c \in Coexpr :
    /\ pc[c] \in {"run", "kill", "join"} => current = c
    /\ Control(c) /\ pc[c] \in {"wait", "woke", "start"} =>
         current = c /\ coexp_act = sent[c]

\* A thread on its way to the post, and the co-expression it switches to.
Switching ==
  \A s \in Coexpr : LET n == target[s] IN
    /\ pc[s] \in {"setup", "mark", "post"} =>
         /\ n = current
         /\ n \in block
         /\ hasActstk[n]
         /\ coexp_act = sent[n]
    /\ pc[s] = "setup" =>
         IF first[s] THEN n # Main /\ pc[n] = "none"
                     ELSE n = s \/ (inited /\ pc[n] = "wait")
    /\ pc[s] = "mark" => inited /\ n # s /\ n # Main /\ pc[n] = "start"
    /\ pc[s] = "post" =>
         /\ inited
         /\ alive[n] = "yes"
         /\ n = s \/ pc[n] \in {"wait", "start"}

\* A thread in coclean, and its victim.
Cleaning ==
  \A s \in Coexpr : LET c == target[s] IN
    pc[s] \in {"kill", "join"} =>
      /\ c \notin {s, Main}
      /\ alive[c] = "no"
      /\ pc[s] = "kill" => pc[c] = "wait" /\ sema[c] = 0
      /\ pc[s] = "join" => \/ pc[c] = "wait" /\ sema[c] = 1
                           \/ pc[c] \in {"woke", "dead"}

\* The inductive invariant.
IInv ==
  /\ TypeOK
  /\ Exclusive
  /\ Semaphores
  /\ Contexts
  /\ Flags
  /\ Globals
  /\ Switching
  /\ Cleaning

-----------------------------------------------------------------------------

USE MainAssumption, SignalAssumption

\* alccoexp's new block disturbs nothing: no thread has it yet.
LEMMA CreateKeeps ==
  ASSUME NEW t \in Coexpr, NEW c \in Coexpr, IInv, Create(t, c)
  PROVE  IInv'
<1> USE DEF IInv, TypeOK, Place, switchVars, Create
<1>1. TypeOK'
  OBVIOUS
<1>2. Exclusive'
  BY DEF Exclusive, Control, Holding
<1>3. Semaphores'
  BY DEF Semaphores
<1>4. Contexts'
  BY DEF Contexts
<1>5. Flags'
  BY DEF Flags
<1>6. Globals'
  BY DEF Globals, Control, Holding
<1>7. Switching'
  BY DEF Switching
<1>8. Cleaning'
  BY DEF Cleaning
<1>9. QED
  BY <1>1, <1>2, <1>3, <1>4, <1>5, <1>6, <1>7, <1>8

\* co_chng leaves its target ready: the target's thread waits, or is about to
\* be created, and &current and the signal are its own.
LEMMA CoChngKeeps ==
  ASSUME NEW t \in Coexpr, NEW n \in Coexpr, NEW sig \in Signal, IInv, CoChng(t, n, sig)
  PROVE  IInv'
<1> USE DEF IInv, TypeOK, Place, switchVars, CoChng
<1>1. TypeOK'
  OBVIOUS
<1>2. Exclusive'
  BY DEF Exclusive, Control, Holding
<1>3. Semaphores'
  BY DEF Semaphores
<1>4. Contexts'
  BY DEF Contexts
<1>5. Flags'
  BY DEF Flags, Cleaning
<1>6. Globals'
  BY DEF Globals, Control, Holding
<1>7. Switching'
  <2>1. \A s \in Coexpr \ {t} :
          pc[s] \notin {"run", "setup", "mark", "post", "kill", "join"}
    BY DEF Exclusive, Control, Holding
  <2>2. alive[n] # "no"
    BY <2>1 DEF Flags
  <2>3. pc[n] # "start"
    <3>1. pc[n] = "start" => sema[n] = 1 /\ alive[n] = "yes"
      BY <2>1 DEF Flags
    <3>2. pc[n] = "start" => Control(n) /\ Control(t)
      BY <3>1 DEF Control, Holding
    <3>3. QED
      BY <3>2 DEF Exclusive
  <2>4. n # t /\ hasActstk[n] => inited /\ pc[n] = "wait"
    BY <2>1, <2>2, <2>3 DEF Exclusive, Control, Holding, Flags, Contexts
  <2>5. ~hasActstk[n] => n # Main /\ pc[n] = "none"
    BY DEF Contexts
  <2>6. pc' = [pc EXCEPT ![t] = "setup"] /\ target'[t] = n /\ current' = n
    OBVIOUS
  <2>7. ASSUME NEW s \in Coexpr, pc'[s] \in {"setup", "mark", "post"}
        PROVE  s = t
    BY <2>1, <2>6, <2>7
  <2>8. /\ n \in block' /\ hasActstk'[n] /\ coexp_act' = sent'[n]
        /\ first'[t] = ~hasActstk[n] /\ inited' = inited
    OBVIOUS
  <2>9. n # t => pc'[n] = pc[n]
    BY <2>6
  <2>10. pc'[t] = "setup"
    BY <2>6
  <2>11. IF first'[t] THEN n # Main /\ pc'[n] = "none"
                     ELSE n = t \/ (inited' /\ pc'[n] = "wait")
    <3>1. CASE ~hasActstk[n]
      <4>1. n # t
        BY <2>5, <3>1
      <4>2. first'[t] = TRUE
        BY <2>8, <3>1
      <4>3. QED
        BY <2>5, <2>9, <3>1, <4>1, <4>2
    <3>2. CASE hasActstk[n]
      <4>1. first'[t] = FALSE
        BY <2>8, <3>2
      <4>2. QED
        BY <2>4, <2>8, <2>9, <3>2, <4>1
    <3>3. QED
      BY <3>1, <3>2
  <2> HIDE DEF IInv, TypeOK, Place, switchVars, CoChng
  <2>12. QED
    BY <2>6, <2>7, <2>8, <2>10, <2>11 DEF Switching
<1>8. Cleaning'
  BY DEF Cleaning
<1>9. QED
  BY <1>1, <1>2, <1>3, <1>4, <1>5, <1>6, <1>7, <1>8

\* coswitch's look-up of the contexts makes the missing ones, and only those.
LEMMA SetupKeeps ==
  ASSUME NEW t \in Coexpr, IInv, Setup(t)
  PROVE  IInv'
<1> USE DEF IInv, TypeOK, Place, switchVars, Fresh, Setup
<1>1. TypeOK'
  OBVIOUS
<1>2. Exclusive'
  BY DEF Exclusive, Control, Holding
<1>3. Semaphores'
  BY DEF Semaphores
<1>4. Contexts'
  BY DEF Contexts, Switching
<1>5. Flags'
  BY DEF Exclusive, Contexts, Flags, Control, Holding
<1>6. Globals'
  BY DEF Globals, Control, Holding
<1>7. Switching'
  BY DEF Exclusive, Flags, Switching, Control, Holding
<1>8. Cleaning'
  BY DEF Exclusive, Cleaning, Control, Holding
<1>9. QED
  BY <1>1, <1>2, <1>3, <1>4, <1>5, <1>6, <1>7, <1>8

\* uerror ends the process without touching what the threads share.
LEMMA CreateFailsKeeps ==
  ASSUME NEW t \in Coexpr, IInv, CreateFails(t)
  PROVE  IInv'
<1> USE DEF IInv, TypeOK, Place, switchVars, CreateFails
<1>1. TypeOK'
  OBVIOUS
<1>2. Exclusive'
  BY DEF Exclusive, Control, Holding
<1>3. Semaphores'
  BY DEF Semaphores
<1>4. Contexts'
  BY DEF Contexts
<1>5. Flags'
  BY DEF Flags
<1>6. Globals'
  BY DEF Globals, Control, Holding
<1>7. Switching'
  BY DEF Switching
<1>8. Cleaning'
  BY DEF Cleaning
<1>9. QED
  BY <1>1, <1>2, <1>3, <1>4, <1>5, <1>6, <1>7, <1>8

\* The alive flag is written while the new thread still waits in nctramp.
LEMMA MarkAliveKeeps ==
  ASSUME NEW t \in Coexpr, IInv, MarkAlive(t)
  PROVE  IInv'
<1> USE DEF IInv, TypeOK, Place, switchVars, MarkAlive
<1>1. TypeOK'
  OBVIOUS
<1>2. Exclusive'
  BY DEF Exclusive, Flags, Control, Holding
<1>3. Semaphores'
  BY DEF Semaphores
<1>4. Contexts'
  BY DEF Contexts, Switching
<1>5. Flags'
  BY DEF Exclusive, Flags, Control, Holding
<1>6. Globals'
  BY DEF Exclusive, Flags, Globals, Control, Holding
<1>7. Switching'
  BY DEF Switching
<1>8. Cleaning'
  BY DEF Exclusive, Cleaning, Control, Holding
<1>9. QED
  BY <1>1, <1>2, <1>3, <1>4, <1>5, <1>6, <1>7, <1>8

\* sem_post hands the one token over to the thread that waits for it.
LEMMA PostKeeps ==
  ASSUME NEW t \in Coexpr, IInv, Post(t)
  PROVE  IInv'
<1> USE DEF IInv, TypeOK, Place, switchVars, Post
<1>1. TypeOK'
  OBVIOUS
<1>2. Exclusive'
  BY DEF Exclusive, Semaphores, Switching, Control, Holding
<1>3. Semaphores'
  BY DEF Exclusive, Semaphores, Switching, Control, Holding
<1>4. Contexts'
  BY DEF Contexts
<1>5. Flags'
  BY DEF Exclusive, Flags, Switching, Control, Holding
<1>6. Globals'
  BY DEF Semaphores, Globals, Switching, Control, Holding
<1>7. Switching'
  BY DEF Switching
<1>8. Cleaning'
  BY DEF Exclusive, Cleaning, Control, Holding
<1>9. QED
  BY <1>1, <1>2, <1>3, <1>4, <1>5, <1>6, <1>7, <1>8

\* sem_wait in coswitch takes the token that was posted.
LEMMA WakeKeeps ==
  ASSUME NEW t \in Coexpr, IInv, Wake(t)
  PROVE  IInv'
<1> USE DEF IInv, TypeOK, Place, switchVars, Wake
<1>1. TypeOK'
  OBVIOUS
<1>2. Exclusive'
  BY DEF Exclusive, Control, Holding
<1>3. Semaphores'
  BY DEF Semaphores
<1>4. Contexts'
  BY DEF Contexts
<1>5. Flags'
  BY DEF Flags
<1>6. Globals'
  BY DEF Globals, Control, Holding
<1>7. Switching'
  BY DEF Exclusive, Flags, Switching, Control, Holding
<1>8. Cleaning'
  BY DEF Cleaning
<1>9. QED
  BY <1>1, <1>2, <1>3, <1>4, <1>5, <1>6, <1>7, <1>8

\* coswitch returns in the thread that holds the token.
LEMMA ResumeKeeps ==
  ASSUME NEW t \in Coexpr, IInv, Resume(t)
  PROVE  IInv'
<1> USE DEF IInv, TypeOK, Place, switchVars, Resume
<1>1. TypeOK'
  OBVIOUS
<1>2. Exclusive'
  BY DEF Exclusive, Control, Holding
<1>3. Semaphores'
  BY DEF Semaphores
<1>4. Contexts'
  BY DEF Contexts
<1>5. Flags'
  BY DEF Flags
<1>6. Globals'
  BY DEF Globals, Control, Holding
<1>7. Switching'
  BY DEF Switching
<1>8. Cleaning'
  BY DEF Cleaning
<1>9. QED
  BY <1>1, <1>2, <1>3, <1>4, <1>5, <1>6, <1>7, <1>8

\* Only a thread whose flag coclean has cleared leaves.
LEMMA DieKeeps ==
  ASSUME NEW t \in Coexpr, IInv, Die(t)
  PROVE  IInv'
<1> USE DEF IInv, TypeOK, Place, switchVars, Die
<1>1. TypeOK'
  OBVIOUS
<1>2. Exclusive'
  BY DEF Exclusive, Contexts, Flags, Control, Holding
<1>3. Semaphores'
  BY DEF Semaphores
<1>4. Contexts'
  BY DEF Contexts
<1>5. Flags'
  BY DEF Contexts, Flags
<1>6. Globals'
  BY DEF Globals, Control, Holding
<1>7. Switching'
  BY DEF Switching
<1>8. Cleaning'
  BY DEF Cleaning
<1>9. QED
  BY <1>1, <1>2, <1>3, <1>4, <1>5, <1>6, <1>7, <1>8

\* nctramp starts its co-expression with the token that was posted.
LEMMA StartKeeps ==
  ASSUME NEW t \in Coexpr, IInv, Start(t)
  PROVE  IInv'
<1> USE DEF IInv, TypeOK, Place, switchVars, Start
<1>1. TypeOK'
  OBVIOUS
<1>2. Exclusive'
  BY DEF Exclusive, Flags, Control, Holding
<1>3. Semaphores'
  BY DEF Semaphores
<1>4. Contexts'
  BY DEF Contexts
<1>5. Flags'
  BY DEF Exclusive, Flags, Control, Holding
<1>6. Globals'
  BY DEF Exclusive, Flags, Globals, Control, Holding
<1>7. Switching'
  BY DEF Exclusive, Flags, Switching, Control, Holding
<1>8. Cleaning'
  BY DEF Cleaning
<1>9. QED
  BY <1>1, <1>2, <1>3, <1>4, <1>5, <1>6, <1>7, <1>8

\* cofree of a co-expression that has never run frees no thread's context.
LEMMA CleanUnusedKeeps ==
  ASSUME NEW t \in Coexpr, NEW c \in Coexpr, IInv, CleanUnused(t, c)
  PROVE  IInv'
<1> USE DEF IInv, TypeOK, Place, switchVars, CleanUnused
<1>1. TypeOK'
  OBVIOUS
<1>2. Exclusive'
  BY DEF Exclusive, Control, Holding
<1>3. Semaphores'
  BY DEF Semaphores
<1>4. Contexts'
  BY DEF Contexts
<1>5. Flags'
  BY DEF Flags
<1>6. Globals'
  BY DEF Globals, Control, Holding
<1>7. Switching'
  BY DEF Switching
<1>8. Cleaning'
  BY DEF Cleaning
<1>9. QED
  BY <1>1, <1>2, <1>3, <1>4, <1>5, <1>6, <1>7, <1>8

\* coclean's victim waits in coswitch when its flag is cleared.
LEMMA CleanBeginKeeps ==
  ASSUME NEW t \in Coexpr, NEW c \in Coexpr, IInv, CleanBegin(t, c)
  PROVE  IInv'
<1> USE DEF IInv, TypeOK, Place, switchVars, CleanBegin
<1>1. TypeOK'
  OBVIOUS
<1>2. Exclusive'
  BY DEF Exclusive, Control, Holding
<1>3. Semaphores'
  BY DEF Semaphores
<1>4. Contexts'
  BY DEF Contexts
<1>5. Flags'
  BY DEF Exclusive, Flags, Globals, Control, Holding
<1>6. Globals'
  BY DEF Globals, Control, Holding
<1>7. Switching'
  BY DEF Switching
<1>8. Cleaning'
  BY DEF Exclusive, Contexts, Flags, Globals, Cleaning, Control, Holding
<1>9. QED
  BY <1>1, <1>2, <1>3, <1>4, <1>5, <1>6, <1>7, <1>8

\* coclean's post wakes the victim and gives it no control.
LEMMA CleanPostKeeps ==
  ASSUME NEW t \in Coexpr, IInv, CleanPost(t)
  PROVE  IInv'
<1> USE DEF IInv, TypeOK, Place, switchVars, CleanPost
<1>1. TypeOK'
  OBVIOUS
<1>2. Exclusive'
  BY DEF Exclusive, Cleaning, Control, Holding
<1>3. Semaphores'
  BY DEF Semaphores, Cleaning
<1>4. Contexts'
  BY DEF Contexts
<1>5. Flags'
  BY DEF Exclusive, Flags, Control, Holding
<1>6. Globals'
  BY DEF Globals, Cleaning, Control, Holding
<1>7. Switching'
  BY DEF Switching
<1>8. Cleaning'
  BY DEF Exclusive, Cleaning, Control, Holding
<1>9. QED
  BY <1>1, <1>2, <1>3, <1>4, <1>5, <1>6, <1>7, <1>8

\* After pthread_join nothing is left that refers to the context freed.
LEMMA CleanJoinKeeps ==
  ASSUME NEW t \in Coexpr, IInv, CleanJoin(t)
  PROVE  IInv'
<1> USE DEF IInv, TypeOK, Place, switchVars, CleanJoin
<1>1. TypeOK'
  OBVIOUS
<1>2. Exclusive'
  BY DEF Exclusive, Control, Holding
<1>3. Semaphores'
  BY DEF Semaphores
<1>4. Contexts'
  BY DEF Contexts, Cleaning
<1>5. Flags'
  BY DEF Flags
<1>6. Globals'
  BY DEF Globals, Control, Holding
<1>7. Switching'
  BY DEF Switching
<1>8. Cleaning'
  BY DEF Exclusive, Cleaning, Control, Holding
<1>9. QED
  BY <1>1, <1>2, <1>3, <1>4, <1>5, <1>6, <1>7, <1>8

\* Every step of every thread preserves the inductive invariant.
THEOREM IInvInductive == IInv /\ [Next]_vars => IInv'
<1> SUFFICES ASSUME IInv, [Next]_vars
             PROVE  IInv'
  OBVIOUS
<1>1. CASE UNCHANGED vars
  BY <1>1 DEF IInv, vars, TypeOK, Exclusive, Semaphores, Contexts, Flags,
              Globals, Switching, Cleaning, Control, Holding
<1>2. ASSUME NEW t \in Coexpr, NEW c \in Coexpr,
             Create(t, c) \/ CleanUnused(t, c) \/ CleanBegin(t, c)
      PROVE  IInv'
  BY <1>2, CreateKeeps, CleanUnusedKeeps, CleanBeginKeeps
<1>3. ASSUME NEW t \in Coexpr, NEW n \in Coexpr, NEW sig \in Signal,
             CoChng(t, n, sig)
      PROVE  IInv'
  BY <1>3, CoChngKeeps
<1>4. ASSUME NEW t \in Coexpr, Machinery(t)
      PROVE  IInv'
  BY <1>4, SetupKeeps, CreateFailsKeeps, MarkAliveKeeps, PostKeeps, WakeKeeps,
     ResumeKeeps, DieKeeps, StartKeeps, CleanPostKeeps, CleanJoinKeeps
     DEF Machinery
<1>5. QED
  BY <1>1, <1>2, <1>3, <1>4 DEF Next, Halted

\* A process that starts satisfies the inductive invariant.
LEMMA InitEstablishes == Init => IInv
<1> SUFFICES ASSUME Init PROVE IInv
  OBVIOUS
<1> USE DEF Init
<1>1. TypeOK
  BY DEF TypeOK, Place
<1>2. Exclusive
  <2>1. \A c \in Coexpr : Control(c) <=> c = Main
    BY DEF Control, Holding
  <2>2. QED
    BY <2>1 DEF Exclusive
<1>3. Semaphores
  BY DEF Semaphores
<1>4. Contexts
  BY MainAssumption DEF Contexts
<1>5. Flags
  BY DEF Flags
<1>6. Globals
  BY DEF Globals, Control, Holding
<1>7. Switching /\ Cleaning
  BY DEF Switching, Cleaning
<1>8. QED
  BY <1>1, <1>2, <1>3, <1>4, <1>5, <1>6, <1>7 DEF IInv

\* The inductive invariant holds in every state, for any number of
\* co-expressions, signals and threads.
THEOREM Invariance == Spec => []IInv
  BY InitEstablishes, IInvInductive, PTL DEF Spec

\* The variables of rswitch.c and rcoexpr.r that are modelled keep their types.
THEOREM TypeCorrect == Spec => []TypeOK
<1>1. IInv => TypeOK
  BY DEF IInv
<1>2. QED
  BY Invariance, <1>1, PTL

\* The semaphores of coswitch, nctramp and coclean let at most one thread use
\* the unlocked globals at a time.
THEOREM MutualExclusion == Spec => []OneAtATime
<1>1. IInv => OneAtATime
  BY DEF IInv, Exclusive, OneAtATime, Control
<1>2. QED
  BY Invariance, <1>1, PTL

\* Icon code is executed by the thread of &current.
THEOREM CurrentRuns == Spec => []RunsCurrent
<1>1. IInv => RunsCurrent
  BY DEF IInv, Globals, RunsCurrent
<1>2. QED
  BY Invariance, <1>1, PTL

\* co_chng returns the signal of the switch that resumed the co-expression.
THEOREM SignalArrives == Spec => []SignalDelivered
<1>1. IInv => SignalDelivered
  BY DEF IInv, Globals, SignalDelivered, Control, Holding
<1>2. QED
  BY Invariance, <1>1, PTL

\* No thread tests old->alive in coswitch before its creator has written it.
THEOREM FlagWrittenInTime == Spec => []FlagWritten
<1>1. IInv => FlagWritten
  BY DEF IInv, Contexts, Flags, FlagWritten
<1>2. QED
  BY Invariance, <1>1, PTL

\* coswitch finds the contexts of both co-expressions when it posts and waits.
THEOREM ContextsInTime == Spec => []ContextsReady
<1>1. IInv => ContextsReady
  BY DEF IInv, TypeOK, Contexts, Switching, ContextsReady
<1>2. QED
  BY Invariance, <1>1, PTL

\* The thread that coclean joins is one that leaves.
THEOREM VictimsLeave == Spec => []VictimLeaves
<1>1. IInv => VictimLeaves
  BY DEF IInv, Cleaning, VictimLeaves
<1>2. QED
  BY Invariance, <1>1, PTL

-----------------------------------------------------------------------------
\* The thread that has control is the holder.
LEMMA HolderUnique ==
  ASSUME Exclusive, NEW c \in Coexpr, Control(c)
  PROVE  Holder = c
  BY DEF Exclusive, Holder

\* The same of the next state.
LEMMA HolderUniqueNext ==
  ASSUME Exclusive', NEW c \in Coexpr, Control(c)'
  PROVE  Holder' = c
  BY DEF Exclusive, Holder

\* A step that takes control from nobody does not change the holder.
LEMMA HolderKept ==
  ASSUME IInv, IInv', \A c \in Coexpr : Control(c) => Control(c)'
  PROVE  Holder' = Holder
<1>1. PICK c \in Coexpr : Control(c)
  BY DEF IInv, Exclusive
<1>2. Holder = c
  BY <1>1, HolderUnique DEF IInv
<1>3. Holder' = c
  BY <1>1, HolderUniqueNext DEF IInv
<1>4. QED
  BY <1>2, <1>3

\* Every step of a thread is a creation, a transfer or a reclamation of a
\* coroutine, or changes none.
LEMMA StepRefines ==
  ASSUME IInv, IInv', [Next]_vars
  PROVE  [Routines!Next]_<<Holder, Live>>
<1> DEFINE Stutter == Holder' = Holder /\ Live' = Live
<1> USE DEF Control, Holding
<1>1. CASE UNCHANGED vars
  <2>1. Holder' = Holder
    BY <1>1, HolderKept DEF vars
  <2>2. Live' = Live
    BY <1>1 DEF Live, vars
  <2>3. QED
    BY <2>1, <2>2
<1>2. ASSUME NEW t \in Coexpr, NEW c \in Coexpr, Create(t, c)
      PROVE  Routines!Create(c)
  <2>1. Holder' = Holder
    BY <1>2, HolderKept DEF Create
  <2>2. alive[c] = "unset" /\ c \notin Live
    BY <1>2 DEF IInv, Contexts, Create, Live, TypeOK
  <2>3. Live' = Live \cup {c}
    BY <1>2, <2>2 DEF Live, Create
  <2>4. QED
    BY <2>1, <2>2, <2>3 DEF Routines!Create
<1>3. ASSUME NEW t \in Coexpr, NEW n \in Coexpr, NEW sig \in Signal,
             CoChng(t, n, sig)
      PROVE  Stutter
  <2>1. Holder' = Holder
    BY <1>3, HolderKept DEF CoChng, IInv, TypeOK
  <2>2. QED
    BY <1>3, <2>1 DEF Live, CoChng
<1>4. ASSUME NEW t \in Coexpr, NEW c \in Coexpr,
             CleanUnused(t, c) \/ CleanBegin(t, c)
      PROVE  Routines!Reclaim(c)
  <2>1. Holder = t
    BY <1>4, HolderUnique DEF IInv, CleanUnused, CleanBegin
  <2>2. c \notin {Main, t} /\ c \in Live
    BY <1>4 DEF IInv, TypeOK, Contexts, Flags, Globals, Cleaning, CleanUnused,
                CleanBegin, Live, Exclusive
  <2>3. Holder' = t
    BY <1>4, <2>2, HolderUniqueNext
       DEF IInv, TypeOK, Place, CleanUnused, CleanBegin
  <2>4. Live' = Live \ {c}
    BY <1>4 DEF Live, CleanUnused, CleanBegin, IInv, TypeOK, Contexts
  <2>5. QED
    BY <2>1, <2>2, <2>3, <2>4 DEF Routines!Reclaim
<1>5. ASSUME NEW t \in Coexpr, NEW n \in Coexpr, n = target[t], Post(t)
      PROVE  Routines!Transfer(n)
  <2>1. n \in Live
    BY <1>5 DEF Post, IInv, Switching, Live
  <2>2. Control(n)'
    BY <1>5 DEF Post, IInv, TypeOK, Place, Switching, Semaphores
  <2>3. Holder' = n
    BY <2>2, HolderUniqueNext DEF IInv
  <2>4. Live' = Live
    BY <1>5 DEF Post, Live
  <2>5. QED
    BY <2>1, <2>3, <2>4 DEF Routines!Transfer
<1>6. ASSUME NEW t \in Coexpr, CleanJoin(t)
      PROVE  Stutter
  <2>1. Holder' = Holder
    BY <1>6, HolderKept DEF CleanJoin, IInv, TypeOK, Place, Cleaning
  <2>2. Live' = Live
    BY <1>6 DEF Live, CleanJoin, IInv, TypeOK, Cleaning
  <2>3. QED
    BY <2>1, <2>2
<1>7. ASSUME NEW t \in Coexpr, Setup(t)
      PROVE  Stutter
  <2>1. \A c \in Coexpr : alive'[c] = "no" <=> alive[c] = "no"
    BY <1>7 DEF Setup, Fresh, IInv, TypeOK, Contexts, Flags, Switching
  <2>2. Live' = Live
    BY <1>7, <2>1 DEF Live, Setup, Fresh, IInv, TypeOK
  <2>3. Control(t) /\ Control(t)'
    BY <1>7 DEF Setup, Fresh, IInv, TypeOK, Place, Switching
  <2>4. Holder' = Holder
    BY <2>3, HolderUnique, HolderUniqueNext DEF IInv
  <2>5. QED
    BY <2>2, <2>4
<1>8. ASSUME NEW t \in Coexpr,
             CreateFails(t) \/ Wake(t) \/ Resume(t) \/ Die(t) \/ Start(t)
               \/ CleanPost(t)
      PROVE  Stutter
  <2>1. Live' = Live
    BY <1>8 DEF Live, CreateFails, Wake, Resume, Die, Start, CleanPost
  <2>2. Holder' = Holder
    BY <1>8, HolderKept
       DEF CreateFails, Wake, Resume, Die, Start, CleanPost, IInv, TypeOK,
           Place, Flags, Cleaning
  <2>3. QED
    BY <2>1, <2>2
<1>9. ASSUME NEW t \in Coexpr, MarkAlive(t)
      PROVE  Stutter
  <2>1. alive[target[t]] # "no"
    BY <1>9 DEF MarkAlive, IInv, TypeOK, Exclusive, Flags
  <2>2. Live' = Live
    <3>1. \A c \in Coexpr : alive'[c] = "no" <=> alive[c] = "no"
      BY <1>9, <2>1 DEF MarkAlive, IInv, TypeOK
    <3>2. QED
      BY <1>9, <3>1 DEF Live, MarkAlive, IInv, TypeOK
  <2>3. Control(t) /\ Control(t)'
    BY <1>9, <2>1 DEF MarkAlive, IInv, TypeOK, Place
  <2>4. Holder' = Holder
    BY <2>3, HolderUnique, HolderUniqueNext DEF IInv
  <2>5. QED
    BY <2>2, <2>4
<1>10. ASSUME NEW t \in Coexpr, Machinery(t)
       PROVE  [Routines!Next]_<<Holder, Live>>
  <2>1. CASE Post(t)
    <3>1. target[t] \in Coexpr
      BY DEF IInv, TypeOK
    <3>2. QED
      BY <1>5, <2>1, <3>1 DEF Routines!Next
  <2>2. CASE ~Post(t)
    <3>1. Stutter
      BY <1>6, <1>7, <1>8, <1>9, <1>10, <2>2 DEF Machinery
    <3>2. QED
      BY <3>1
  <2>3. QED
    BY <2>1, <2>2
<1>11. ASSUME NEW t \in Coexpr, NEW c \in Coexpr,
              Create(t, c) \/ CleanUnused(t, c) \/ CleanBegin(t, c)
       PROVE  Routines!Next
  BY <1>2, <1>4, <1>11 DEF Routines!Next
<1>12. QED
  BY <1>1, <1>3, <1>10, <1>11 DEF Next, Halted

\* The threads and semaphores of rswitch.c implement coroutines.
THEOREM Refinement == Spec => ImplementsCoroutine
<1>1. Init => Routines!Init
  <2> SUFFICES ASSUME Init PROVE Routines!Init
    OBVIOUS
  <2>1. Holder = Main
    BY InitEstablishes, HolderUnique DEF IInv, Init, Control, Holding
  <2>2. Live = {Main}
    BY DEF Live, Init
  <2>3. QED
    BY <2>1, <2>2 DEF Routines!Init
<1>2. IInv /\ IInv' /\ [Next]_vars => [Routines!Next]_<<Holder, Live>>
  BY StepRefines
<1>3. QED
  BY <1>1, <1>2, Invariance, PTL DEF Spec, ImplementsCoroutine, Routines!Spec

=============================================================================
