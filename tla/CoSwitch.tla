------------------------------ MODULE CoSwitch ------------------------------
(***************************************************************************)
(* Co-expression context switching on POSIX threads: coswitch, coclean and *)
(* nctramp of src/common/rswitch.c, called from co_chng (rcoexpr.r),       *)
(* activate (lmisc.r) and cofree (rmemmgt.r).                              *)
(*                                                                         *)
(* Every co-expression that has run owns a thread and a semaphore.  A      *)
(* switch posts the semaphore of the new co-expression and waits on the    *)
(* semaphore of the old one, so the threads interleave between the post    *)
(* and the wait.  The interpreter's registers, &current and the signal     *)
(* handed over are globals without a lock: they are safe only if the       *)
(* semaphores let one thread at a time run Icon code.                      *)
(***************************************************************************)
EXTENDS Naturals, FiniteSets

CONSTANTS
  Coexpr,      \* co-expression blocks; a freed block may be allocated again
  Main,        \* the block of &main
  MaxThreads,  \* threads the system lets the process create
  Signal,      \* A_Coact and the signals of a return: A_Coret, A_Cofail
  A_Coact      \* the signal of an activation

ASSUME MainAssumption == Main \in Coexpr
ASSUME SignalAssumption == A_Coact \in Signal
ASSUME MaxThreadsAssumption == MaxThreads \in Nat

VARIABLES
  block,      \* blocks on stklist, and &main
  hasActstk,  \* hasActstk[c]: es_actstk # NULL, c has been activated
  current,    \* &current
  coexp_act,  \* co_chng's static variable
  inited,     \* rswitch.c: first-time initialization has been done
  ctx,        \* ctx[c]: cstate[1] points to a context struct
  sema,       \* sema[c]: value of the context's semaphore
  alive,      \* alive[c]: the context's alive flag, "unset" before it is written
  pc,         \* pc[c]: where the thread of c is
  target,     \* target[c]: the co-expression c's thread switches to or cleans
  first,      \* first[c]: coswitch's third argument is 0, target[c] never ran
  halted,     \* the process has exited (uerror)
  sent        \* history: sent[c] is the signal of the last switch to c

switchVars == <<hasActstk, current, coexp_act, first, sent>>
vars == <<block, hasActstk, current, coexp_act, inited, ctx, sema, alive, pc,
          target, first, halted, sent>>

(***************************************************************************)
(* The places a thread can be at.                                          *)
(*   "none"   there is no thread                                           *)
(*   "run"    executing Icon code in interp                                *)
(*   "setup"  in coswitch, contexts not looked up yet                      *)
(*   "mark"   in coswitch, the new thread created, its flag not written    *)
(*   "post"   in coswitch, before sem_post(new->semp)                      *)
(*   "wait"   in coswitch, after the post: in sem_wait(old->semp)          *)
(*   "woke"   in coswitch, past sem_wait, old->alive not read yet          *)
(*   "start"  in nctramp's sem_wait                                        *)
(*   "kill"   in coclean, victim's flag cleared, before the post           *)
(*   "join"   in coclean's pthread_join                                    *)
(*   "dead"   pthread_exit called, not joined yet                          *)
(***************************************************************************)
Place == {"none", "run", "setup", "mark", "post", "wait", "woke", "start",
          "kill", "join", "dead"}

\* The threads that exist besides the one the process started with.
Threads == {c \in Coexpr \ {Main} : pc[c] # "none"}

Init ==
  /\ block = {Main}
  /\ hasActstk = [c \in Coexpr |-> c = Main]
  /\ current = Main
  /\ coexp_act = A_Coact
  /\ inited = FALSE
  /\ ctx = [c \in Coexpr |-> FALSE]
  /\ sema = [c \in Coexpr |-> 0]
  /\ alive = [c \in Coexpr |-> "unset"]
  /\ pc = [c \in Coexpr |-> IF c = Main THEN "run" ELSE "none"]
  /\ target = [c \in Coexpr |-> Main]
  /\ first = [c \in Coexpr |-> FALSE]
  /\ halted = FALSE
  /\ sent = [c \in Coexpr |-> A_Coact]

-----------------------------------------------------------------------------
(* A definition named Action_Slip is Action as a plausible mistake in the  *)
(* code would make it.  Next does not use it: it shows which property      *)
(* would notice.                                                           *)

(* alccoexp: a new block, with cstate zeroed and no activator stack. *)
Create(t, c) ==
  /\ pc[t] = "run"
  /\ c \notin block
  /\ block' = block \cup {c}
  /\ hasActstk' = [hasActstk EXCEPT ![c] = FALSE]
  /\ ctx' = [ctx EXCEPT ![c] = FALSE]
  /\ UNCHANGED <<current, coexp_act, inited, sema, alive, pc, target, first,
                 halted, sent>>

(* activate and co_chng up to coswitch.  An activation takes any           *)
(* co-expression; a return or a failure goes to an activator, which has    *)
(* itself been activated, and &main's code never executes one.             *)
CoChng_SignalOfActivationOnly(t, n, sig) ==
  /\ pc[t] = "run"
  /\ n \in block
  /\ sig # A_Coact => t # Main /\ hasActstk[n]
  /\ hasActstk' = [hasActstk EXCEPT ![n] = TRUE]
  /\ first' = [first EXCEPT ![t] = ~hasActstk[n]]
  /\ current' = n
  /\ coexp_act' = IF sig = A_Coact THEN sig ELSE coexp_act
  /\ sent' = [sent EXCEPT ![n] = sig]
  /\ target' = [target EXCEPT ![t] = n]
  /\ pc' = [pc EXCEPT ![t] = "setup"]
  /\ UNCHANGED <<block, inited, ctx, sema, alive, halted>>

CoChng(t, n, sig) ==
  /\ pc[t] = "run"
  /\ n \in block
  /\ sig # A_Coact => t # Main /\ hasActstk[n]
  /\ hasActstk' = [hasActstk EXCEPT ![n] = TRUE]
  /\ first' = [first EXCEPT ![t] = ~hasActstk[n]]
  /\ current' = n
  /\ coexp_act' = sig
  /\ sent' = [sent EXCEPT ![n] = sig]
  /\ target' = [target EXCEPT ![t] = n]
  /\ pc' = [pc EXCEPT ![t] = "setup"]
  /\ UNCHANGED <<block, inited, ctx, sema, alive, halted>>

(* The contexts coswitch makes before it posts: &main's on the first call  *)
(* of all, and the new co-expression's on its first activation.            *)
Fresh_NewOnly(t) == {c \in {target[t]} : first[t]}
Fresh(t) == {c \in {t} : ~inited} \cup {c \in {target[t]} : first[t]}

(* makesem and pthread_create for them. *)
Setup(t) ==
  /\ pc[t] = "setup"
  /\ first[t] => Cardinality(Threads) < MaxThreads
  /\ inited' = TRUE
  /\ ctx' = [c \in Coexpr |-> c \in Fresh(t) \/ ctx[c]]
  /\ sema' = [c \in Coexpr |-> IF c \in Fresh(t) THEN 0 ELSE sema[c]]
  /\ alive' = [c \in Coexpr |->
                 IF c \notin Fresh(t) THEN alive[c]
                 ELSE IF c = t THEN "yes" ELSE "unset"]
  /\ pc' = IF first[t] THEN [pc EXCEPT ![t] = "mark", ![target[t]] = "start"]
                       ELSE [pc EXCEPT ![t] = "post"]
  /\ UNCHANGED <<block, switchVars, target, halted>>

(* pthread_create fails, at the limit or for another lack of resources:     *)
(* uerror, syserr, exit.                                                    *)
CreateFails(t) ==
  /\ pc[t] = "setup"
  /\ first[t]
  /\ halted' = TRUE
  /\ UNCHANGED <<block, switchVars, inited, ctx, sema, alive, pc, target>>

(* new->alive = 1, after pthread_create has returned. *)
MarkAlive_Forgotten(t) ==
  /\ pc[t] = "mark"
  /\ pc' = [pc EXCEPT ![t] = "post"]
  /\ UNCHANGED <<block, switchVars, inited, ctx, sema, alive, target, halted>>

MarkAlive(t) ==
  /\ pc[t] = "mark"
  /\ alive' = [alive EXCEPT ![target[t]] = "yes"]
  /\ pc' = [pc EXCEPT ![t] = "post"]
  /\ UNCHANGED <<block, switchVars, inited, ctx, sema, target, halted>>

(* sem_post(new->semp) *)
Post_OldSemaphore(t) ==
  /\ pc[t] = "post"
  /\ sema' = [sema EXCEPT ![t] = @ + 1]
  /\ pc' = [pc EXCEPT ![t] = "wait"]
  /\ UNCHANGED <<block, switchVars, inited, ctx, alive, target, halted>>

Post(t) ==
  /\ pc[t] = "post"
  /\ sema' = [sema EXCEPT ![target[t]] = @ + 1]
  /\ pc' = [pc EXCEPT ![t] = "wait"]
  /\ UNCHANGED <<block, switchVars, inited, ctx, alive, target, halted>>

(* sem_wait(old->semp) returns; an EINTR just waits again. *)
Wake_OnError(t) ==
  /\ pc[t] = "wait"
  /\ sema' = [sema EXCEPT ![t] = @ - 1]
  /\ pc' = [pc EXCEPT ![t] = "woke"]
  /\ UNCHANGED <<block, switchVars, inited, ctx, alive, target, halted>>

Wake(t) ==
  /\ pc[t] = "wait"
  /\ sema[t] > 0
  /\ sema' = [sema EXCEPT ![t] = @ - 1]
  /\ pc' = [pc EXCEPT ![t] = "woke"]
  /\ UNCHANGED <<block, switchVars, inited, ctx, alive, target, halted>>

(* old->alive is set: coswitch returns, and co_chng returns coexp_act. *)
Resume_FlagIgnored(t) ==
  /\ pc[t] = "woke"
  /\ pc' = [pc EXCEPT ![t] = "run"]
  /\ UNCHANGED <<block, switchVars, inited, ctx, sema, alive, target, halted>>

Resume(t) ==
  /\ pc[t] = "woke"
  /\ alive[t] # "no"
  /\ pc' = [pc EXCEPT ![t] = "run"]
  /\ UNCHANGED <<block, switchVars, inited, ctx, sema, alive, target, halted>>

(* old->alive is zero, or holds what malloc left there: pthread_exit. *)
Die(t) ==
  /\ pc[t] = "woke"
  /\ alive[t] # "yes"
  /\ pc' = [pc EXCEPT ![t] = "dead"]
  /\ UNCHANGED <<block, switchVars, inited, ctx, sema, alive, target, halted>>

(* nctramp's sem_wait returns; new_context enters interp.  The signal of   *)
(* the first activation is not read: nctramp returns from no co_chng.      *)
Start_WithoutWait(t) ==
  /\ pc[t] = "start"
  /\ pc' = [pc EXCEPT ![t] = "run"]
  /\ UNCHANGED <<block, switchVars, inited, ctx, sema, alive, target, halted>>

Start(t) ==
  /\ pc[t] = "start"
  /\ sema[t] > 0
  /\ sema' = [sema EXCEPT ![t] = @ - 1]
  /\ pc' = [pc EXCEPT ![t] = "run"]
  /\ UNCHANGED <<block, switchVars, inited, ctx, alive, target, halted>>

(* cofree on a block the marking did not reach (never &main nor &current): *)
(* coclean returns at once if the co-expression never ran ...              *)
CleanUnused(t, c) ==
  /\ pc[t] = "run"
  /\ c \in block \ {Main, current}
  /\ ~ctx[c]
  /\ block' = block \ {c}
  /\ hasActstk' = [hasActstk EXCEPT ![c] = FALSE]
  /\ UNCHANGED <<current, coexp_act, inited, ctx, sema, alive, pc, target,
                 first, halted, sent>>

(* ... and else tells the thread to exit, *)
CleanBegin_FlagKept(t, c) ==
  /\ pc[t] = "run"
  /\ c \in block \ {Main, current}
  /\ ctx[c]
  /\ target' = [target EXCEPT ![t] = c]
  /\ pc' = [pc EXCEPT ![t] = "kill"]
  /\ UNCHANGED <<block, switchVars, inited, ctx, sema, alive, halted>>

CleanBegin_Current(t, c) ==
  /\ pc[t] = "run"
  /\ c \in block \ {Main}
  /\ ctx[c]
  /\ alive' = [alive EXCEPT ![c] = "no"]
  /\ target' = [target EXCEPT ![t] = c]
  /\ pc' = [pc EXCEPT ![t] = "kill"]
  /\ UNCHANGED <<block, switchVars, inited, ctx, sema, halted>>

CleanBegin(t, c) ==
  /\ pc[t] = "run"
  /\ c \in block \ {Main, current}
  /\ ctx[c]
  /\ alive' = [alive EXCEPT ![c] = "no"]
  /\ target' = [target EXCEPT ![t] = c]
  /\ pc' = [pc EXCEPT ![t] = "kill"]
  /\ UNCHANGED <<block, switchVars, inited, ctx, sema, halted>>

(* unblocks it, *)
CleanPost(t) ==
  /\ pc[t] = "kill"
  /\ sema' = [sema EXCEPT ![target[t]] = @ + 1]
  /\ pc' = [pc EXCEPT ![t] = "join"]
  /\ UNCHANGED <<block, switchVars, inited, ctx, alive, target, halted>>

(* waits for its end and frees context and block. *)
CleanJoin(t) ==
  LET c == target[t] IN
  /\ pc[t] = "join"
  /\ pc[c] = "dead"
  /\ block' = block \ {c}
  /\ hasActstk' = [hasActstk EXCEPT ![c] = FALSE]
  /\ ctx' = [ctx EXCEPT ![c] = FALSE]
  /\ sema' = [sema EXCEPT ![c] = 0]
  /\ alive' = [alive EXCEPT ![c] = "unset"]
  /\ pc' = [pc EXCEPT ![t] = "run", ![c] = "none"]
  /\ UNCHANGED <<current, coexp_act, inited, target, first, halted, sent>>

-----------------------------------------------------------------------------
\* The steps a thread takes by itself once it has called coswitch or coclean.
Machinery(t) ==
  \/ Setup(t) \/ CreateFails(t) \/ MarkAlive(t) \/ Post(t)
  \/ Wake(t) \/ Resume(t) \/ Die(t) \/ Start(t)
  \/ CleanPost(t) \/ CleanJoin(t)

Halted == halted /\ UNCHANGED vars

Next ==
  \/ /\ ~halted
     /\ \E t \in Coexpr :
          \/ \E c \in Coexpr : Create(t, c)
          \/ \E n \in Coexpr, sig \in Signal : CoChng(t, n, sig)
          \/ \E c \in Coexpr : CleanUnused(t, c)
          \/ \E c \in Coexpr : CleanBegin(t, c)
          \/ Machinery(t)
  \/ Halted

\* The system schedules every thread that can take a step, and sem_wait and
\* pthread_join return once they may.
Fairness == \A t \in Coexpr : WF_vars(~halted /\ Machinery(t))

Spec == Init /\ [][Next]_vars
FairSpec == Spec /\ Fairness

-----------------------------------------------------------------------------
(* Every variable keeps its type. *)
TypeOK ==
  /\ block \in SUBSET Coexpr
  /\ hasActstk \in [Coexpr -> BOOLEAN]
  /\ current \in Coexpr
  /\ coexp_act \in Signal
  /\ inited \in BOOLEAN
  /\ ctx \in [Coexpr -> BOOLEAN]
  /\ sema \in [Coexpr -> Nat]
  /\ alive \in [Coexpr -> {"unset", "yes", "no"}]
  /\ pc \in [Coexpr -> Place]
  /\ target \in [Coexpr -> Coexpr]
  /\ halted \in BOOLEAN
  /\ first \in [Coexpr -> BOOLEAN]
  /\ sent \in [Coexpr -> Signal]

\* t's thread is one that executes, or will without waiting for another's post.
Holding(t) ==
  \/ pc[t] \in {"run", "setup", "mark", "post", "kill", "join"}
  \/ pc[t] = "woke" /\ alive[t] # "no"

\* t's thread holds control, or a switch has posted its semaphore.
Control(t) ==
  \/ Holding(t)
  \/ pc[t] \in {"wait", "start"} /\ sema[t] > 0 /\ alive[t] # "no"

\* Control is handed over by the post; coclean's first store ends a life.
Holder == CHOOSE c \in Coexpr : Control(c)
Live == {c \in block : alive[c] # "no"}
Routines == INSTANCE Coroutine WITH holder <- Holder, live <- Live

(* The threads implement coroutines. *)
ImplementsCoroutine == Routines!Spec

(* No two threads are between their wake-up and their next post, where     *)
(* coswitch, coclean and the interpreter use the unlocked globals.         *)
OneAtATime == \A s, t \in Coexpr : Holding(s) /\ Holding(t) => s = t

(* The thread that executes Icon code is the one of &current, whose stack  *)
(* registers co_chng has put into the globals.                             *)
RunsCurrent == \A t \in Coexpr : pc[t] = "run" => t = current

(* co_chng returns the signal of the switch that resumed the co-expression,*)
(* although the signal waits in one static variable shared by all threads. *)
SignalDelivered ==
  \A t \in Coexpr : pc[t] = "woke" /\ alive[t] # "no" => coexp_act = sent[t]

(* No thread tests an alive flag that its creator has not written yet.     *)
FlagWritten == \A t \in Coexpr : pc[t] = "woke" => alive[t] # "unset"

(* coswitch finds both context pointers set when it posts and waits.       *)
ContextsReady ==
  \A t \in Coexpr :
    /\ pc[t] \in {"mark", "post"} => ctx[t] /\ ctx[target[t]]
    /\ pc[t] \in {"wait", "woke", "start"} => ctx[t]

(* coclean joins a thread that is on its way out and never frees a context *)
(* a thread can still execute with.                                        *)
VictimLeaves ==
  \A t \in Coexpr : pc[t] = "join" =>
    /\ pc[target[t]] \in {"wait", "woke", "dead"}
    /\ alive[target[t]] = "no"

(* A switch the code has begun reaches the new co-expression, unless the   *)
(* system refuses the thread.                                              *)
SwitchCompletes ==
  \A t, n \in Coexpr :
    (pc[t] = "setup" /\ target[t] = n) ~> (pc[n] = "run" \/ halted)

(* A collection that cleans a co-expression gets past pthread_join.        *)
CleanCompletes == \A t \in Coexpr : pc[t] = "kill" ~> pc[t] = "run"
=============================================================================
