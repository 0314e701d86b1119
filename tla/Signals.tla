------------------------------ MODULE Signals ------------------------------
(***************************************************************************)
(* Signals of one process, from sys_kill of any process to the handler,    *)
(* the freeze loop or the exit: os/src/task/mod.rs (check_pending_signals, *)
(* handle_signals), the signal system calls of os/src/syscall/process.rs   *)
(* and the trap handler that ties them together.                           *)
(*                                                                         *)
(* The kernel is not interrupted, so another process can send a signal     *)
(* only while this one is off the processor: phase "fresh", "ready",       *)
(* "blocked" or "frozen".  A trap context is abstracted to the code it     *)
(* resumes (main program or handler) and the origin of its a0.             *)
(***************************************************************************)
EXTENDS Integers, FiniteSets, FiniteSetsExt

CONSTANTS Sig,    \* the signal numbers used, a subset of 0 .. 31
          Masks,  \* the signal masks user programs pass, subsets of Sig
          NoCtx   \* trap_ctx_backup is None

SIGDEF  == 0
SIGINT  == 2
SIGILL  == 4
SIGKILL == 9
SIGSEGV == 11
SIGCONT == 18
SIGSTOP == 19

\* Trap contexts: the handler or main program, and where a0 comes from.
Ctx == [pc : Sig \cup {-1}, a0 : {"live", "result", "signum"}]

ASSUME SignalAssumption ==
    /\ Sig \subseteq 0 .. 31 /\ Masks \subseteq SUBSET Sig
    /\ NoCtx \notin Ctx

\* Faulty variant: SIGKILL is left to the flag killed.
FatalSig_NoKill == {SIGINT, SIGILL, 6, 8, SIGSEGV} \cap Sig

\* Signals that check_pending_signals passes to the kernel handler, signals that
\* SignalFlags::check_error turns into an exit.
KernelSig == {SIGDEF, SIGKILL, SIGCONT, SIGSTOP} \cap Sig
UserSig   == Sig \ KernelSig
FatalSig  == {SIGINT, SIGILL, 6, 8, SIGKILL, SIGSEGV} \cap Sig

NoSig == -1    \* handling_sig outside handlers
Main  == -1    \* a context that resumes the main program

VARIABLES
    phase,     \* where the process is, see the actions
    pending,   \* inner.signals
    mask,      \* inner.signal_mask
    actions,   \* inner.signal_actions.table; entries of kernel signals are never read
    handling,  \* inner.handling_sig
    killed, frozen,
    backup,    \* inner.trap_ctx_backup
    cx,        \* the trap context
    new,       \* history: the process has not trapped yet
    lost       \* history: a handler was interrupted by another one, or forked

flags == <<pending, mask, handling, killed, frozen>>
vars  == <<phase, pending, mask, actions, handling, killed, frozen, backup, cx,
           new, lost>>

\* A new process: SignalActions::default, whose mask is 40 (signals 3 and 5).
Init ==
    /\ phase = "fresh"
    /\ pending = {} /\ mask = {}
    /\ actions = [s \in UserSig |-> [handler |-> FALSE, mask |-> {3, 5} \cap Sig]]
    /\ handling = NoSig /\ killed = FALSE /\ frozen = FALSE
    /\ backup = NoCtx
    /\ cx = [pc |-> Main, a0 |-> "live"]
    /\ new = TRUE /\ lost = FALSE

----------------------------------------------------------------------------
\* sys_kill by another process; a signal that is pending already is refused.
Kill(s) ==
    /\ phase \in {"fresh", "ready", "blocked", "frozen"}
    /\ s \notin pending
    /\ pending' = pending \cup {s}
    /\ UNCHANGED <<phase, mask, actions, handling, killed, frozen, backup, cx, new, lost>>

\* The first dispatch of a process goes to trap_return directly.
Start ==
    /\ phase = "fresh"
    /\ phase' = "user"
    /\ UNCHANGED <<flags, actions, backup, cx, new, lost>>

\* A timer interrupt: the user's a0 is in the trap context, the process suspends.
Timer ==
    /\ phase = "user"
    /\ phase' = "ready"
    /\ cx' = [cx EXCEPT !.a0 = "live"]
    /\ new' = FALSE
    /\ UNCHANGED <<flags, actions, backup, lost>>

\* A page fault or an illegal instruction of the user program.
Fault(s) ==
    /\ phase = "user"
    /\ phase' = "check"
    /\ cx' = [cx EXCEPT !.a0 = "live"]
    /\ pending' = pending \cup {s}
    /\ new' = FALSE
    /\ UNCHANGED <<mask, handling, killed, frozen, actions, backup, lost>>

\* A system call that suspends (sys_yield, a read or write that must wait).
Block ==
    /\ phase = "user"
    /\ phase' = "blocked"
    /\ new' = FALSE
    /\ UNCHANGED <<flags, actions, backup, cx, lost>>

\* Dispatched again, after the timer or when the call can complete.
Resume ==
    /\ phase = "ready"
    /\ phase' = "check"
    /\ UNCHANGED <<flags, actions, backup, cx, new, lost>>

Unblock ==
    /\ phase = "blocked"
    /\ phase' = "check"
    /\ cx' = [cx EXCEPT !.a0 = "result"]
    /\ UNCHANGED <<flags, actions, backup, new, lost>>

\* Stdin::read gets a ctrl-c: the call completes and the process signals itself.
CtrlC ==
    /\ phase = "blocked" /\ SIGINT \in Sig
    /\ phase' = "check"
    /\ cx' = [cx EXCEPT !.a0 = "result"]
    /\ pending' = pending \cup {SIGINT}
    /\ UNCHANGED <<mask, handling, killed, frozen, actions, backup, new, lost>>

\* sys_exit
Exit ==
    /\ phase = "user"
    /\ phase' = "exit"
    /\ new' = FALSE
    /\ UNCHANGED <<flags, actions, backup, cx, lost>>

\* The end of every system call in trap_handler: its result goes to a0 of the
\* trap context c the call leaves behind.
SyscallEnd(c) ==
    /\ phase = "user"
    /\ phase' = "check"
    /\ cx' = [c EXCEPT !.a0 = "result"]
    /\ new' = FALSE

\* sys_kill of the process itself
KillSelf(s) ==
    /\ SyscallEnd(cx)
    /\ pending' = pending \cup {s}
    /\ UNCHANGED <<mask, handling, killed, frozen, actions, backup, lost>>

Sigprocmask(m) ==
    /\ SyscallEnd(cx)
    /\ mask' = m
    /\ UNCHANGED <<pending, handling, killed, frozen, actions, backup, lost>>

\* sys_sigaction; it is refused for SIGKILL and SIGSTOP, and without effect for
\* SIGCONT and SIGDEF.
Sigaction(s, h, m) ==
    /\ SyscallEnd(cx)
    /\ actions' = [actions EXCEPT ![s] = [handler |-> h, mask |-> m]]
    /\ UNCHANGED <<flags, backup, lost>>

\* sys_sigretrun restores the backup and keeps it; unwrap of no backup panics.
Sigreturn ==
    /\ phase = "user"
    /\ IF backup = NoCtx
       THEN /\ phase' = "panic"
            /\ UNCHANGED <<cx, handling, new>>
       ELSE /\ SyscallEnd(backup)
            /\ handling' = NoSig
    /\ UNCHANGED <<pending, mask, killed, frozen, actions, backup, lost>>

\* sys_exec starts a new program and keeps all of the signal state.
Exec ==
    /\ SyscallEnd([cx EXCEPT !.pc = Main])
    /\ UNCHANGED <<flags, actions, backup, lost>>

\* sys_fork, from here on following the child.
ForkChild ==
    /\ phase = "user"
    /\ phase' = "fresh"
    /\ pending' = {} /\ handling' = NoSig /\ killed' = FALSE /\ frozen' = FALSE
    /\ backup' = NoCtx
    /\ cx' = [cx EXCEPT !.a0 = "result"]
    /\ new' = TRUE
    /\ lost' = (cx.pc # Main)
    /\ UNCHANGED <<mask, actions>>

----------------------------------------------------------------------------
\* Faulty variant: the mask of the process is not consulted.
Eligible_IgnoresMask ==
    {s \in pending : handling = NoSig \/ s \notin actions[handling].mask}

\* Signals check_pending_signals would act on, the first user signal among them,
\* and the kernel signals it meets before it returns at that one.
Eligible ==
    {s \in pending \ mask : handling = NoSig \/ s \notin actions[handling].mask}
ForUser == Eligible \cap UserSig
Reached == {s \in Eligible \cap KernelSig : \A u \in ForUser : s < u}

\* Faulty variant: the backup is taken after the context has been modified.
CallUserHandler_LateBackup(cleared) ==
    /\ ForUser # {} /\ actions[Min(ForUser)].handler
    /\ mask' = actions[Min(ForUser)].mask
    /\ handling' = Min(ForUser)
    /\ pending' = pending \ (cleared \cup {Min(ForUser)})
    /\ cx' = [pc |-> Min(ForUser), a0 |-> "signum"]
    /\ backup' = cx'
    /\ UNCHANGED lost

\* call_user_signal_handler for the first user signal, after the kernel signals
\* in cleared have been consumed; without a handler it changes nothing.
CallUserHandler(cleared) ==
    LET sig == Min(ForUser)
    IN  IF ForUser # {} /\ actions[sig].handler
        THEN /\ mask' = actions[sig].mask
             /\ handling' = sig
             /\ pending' = pending \ (cleared \cup {sig})
             /\ backup' = cx
             /\ cx' = [pc |-> sig, a0 |-> "signum"]
             /\ lost' = (lost \/ cx.pc # Main)
        ELSE /\ pending' = pending \ cleared
             /\ UNCHANGED <<mask, handling, backup, cx, lost>>

\* check_pending_signals, in the order of signal numbers: SIGCONT before SIGSTOP.
CheckPending ==
    /\ killed' = (killed \/ Reached \cap {SIGDEF, SIGKILL} # {})
    /\ frozen' = (SIGSTOP \in Reached \/ (frozen /\ SIGCONT \notin Reached))
    /\ CallUserHandler(Reached \cap {SIGSTOP, SIGCONT})
    /\ UNCHANGED <<actions, new>>

\* handle_signals: one check, then check and suspend for as long as the process
\* is frozen and not killed.
FirstCheck == phase = "check" /\ phase' = "loop" /\ CheckPending

StayFrozen ==
    /\ phase = "loop" /\ frozen /\ ~killed
    /\ phase' = "frozen"
    /\ CheckPending

\* Faulty variant: a frozen process that is dispatched runs.
Thaw_Runs ==
    /\ phase = "frozen"
    /\ phase' = "user"
    /\ UNCHANGED <<flags, actions, backup, cx, new, lost>>

Thaw ==
    /\ phase = "frozen"
    /\ phase' = "loop"
    /\ UNCHANGED <<flags, actions, backup, cx, new, lost>>

\* Faulty variant: a masked fatal signal does not count.
TrapEnd_HonoursMask ==
    /\ phase = "loop" /\ (~frozen \/ killed)
    /\ phase' = IF (pending \ mask) \cap FatalSig # {} THEN "exit" ELSE "user"
    /\ UNCHANGED <<flags, actions, backup, cx, new, lost>>

\* The rest of trap_handler: check_signals_error_of_current, then trap_return.
TrapEnd ==
    /\ phase = "loop" /\ (~frozen \/ killed)
    /\ phase' = IF pending \cap FatalSig # {} THEN "exit" ELSE "user"
    /\ UNCHANGED <<flags, actions, backup, cx, new, lost>>

User ==
    \/ Timer \/ Block \/ Exit \/ Sigreturn \/ Exec \/ ForkChild
    \/ \E s \in {SIGILL, SIGSEGV} \cap Sig : Fault(s)
    \/ \E s \in Sig : KillSelf(s)
    \/ \E m \in Masks : Sigprocmask(m)
    \/ \E s \in UserSig, h \in BOOLEAN, m \in Masks : Sigaction(s, h, m)

Next ==
    \/ \E s \in Sig : Kill(s)
    \/ Start \/ Resume \/ Unblock \/ CtrlC \/ User
    \/ FirstCheck \/ StayFrozen \/ Thaw \/ TrapEnd

Spec == Init /\ [][Next]_vars

\* The scheduler dispatches the process again (module Stride), the kernel runs
\* on, and the timer interrupts a program that makes no system call.  Nothing
\* makes a blocked call complete.
Fairness ==
    /\ WF_vars(Start \/ Resume) /\ WF_vars(Thaw) /\ WF_vars(Timer)
    /\ WF_vars(FirstCheck \/ StayFrozen \/ TrapEnd)

FairSpec == Spec /\ Fairness

----------------------------------------------------------------------------
TypeOK ==
    /\ phase \in {"fresh", "user", "ready", "blocked", "check", "loop", "frozen",
                  "exit", "panic"}
    /\ pending \in SUBSET Sig
    /\ mask \in SUBSET Sig
    /\ actions \in [UserSig -> [handler : BOOLEAN, mask : SUBSET Sig]]
    /\ handling \in UserSig \cup {NoSig}
    /\ killed \in BOOLEAN /\ frozen \in BOOLEAN
    /\ backup \in Ctx \cup {NoCtx}
    /\ cx \in Ctx
    /\ new \in BOOLEAN /\ lost \in BOOLEAN

\* From its first trap on, a process never runs user code with a fatal signal
\* pending, masked or not: trap_return is not reached, and no other process
\* runs between the check and trap_return.
FatalStopsUser == phase = "user" /\ ~new => pending \cap FatalSig = {}

\* A stopped process does not run user code.  The one exception is a process
\* that has met SIGDEF, which sets killed but never kills.
FrozenStaysOff == phase = "user" /\ frozen => killed /\ SIGDEF \in pending

\* The program a handler interrupted can be resumed: its context is the trap
\* context or the backup, also across exec and calls of sigreturn, unless a
\* handler was itself interrupted by a handler or the process was forked in one.
\* And a process that the kernel has put into a handler always has a backup, so
\* the sigreturn that ends the handler does not panic.
MainRecoverable ==
    /\ ~lost => \/ cx.pc = Main
                \/ backup # NoCtx /\ backup.pc = Main
    /\ handling # NoSig => backup # NoCtx

\* No signal is dropped: a pending one disappears only in the child of a fork,
\* into its own handler, or, for SIGSTOP and SIGCONT, by being carried out; and
\* none that is masked disappears.
NoSignalLost ==
    [][\A s \in pending \ pending' :
          \/ phase' = "fresh"
          \/ /\ s \notin mask
             /\ \/ handling' = s /\ cx'.pc = s /\ backup' = cx
                \/ s \in {SIGSTOP, SIGCONT}]_vars

\* SIGKILL is pending where it has no effect: in a call that does not return, or
\* in the freeze loop, masked or behind a user signal with a smaller number.
KillShielded ==
    /\ SIGKILL \in pending
    /\ phase = "blocked" \/ (frozen /\ SIGKILL \notin Reached)

\* SIGKILL ends the process, masked or not, unless it is shielded again and again
\* or a stray sigreturn brings the kernel down.  Following a child of a fork
\* leaves the signal with the parent.
KillEnds ==
    \/ []<>KillShielded
    \/ SIGKILL \in pending ~> (phase \in {"exit", "panic"} \/ SIGKILL \notin pending)

\* sys_sigretrun restores the trap context that was saved when the handler was
\* called ("restore the trap context").
SigreturnRestores ==
    [][Sigreturn /\ phase' # "panic" => cx' = backup]_vars
=============================================================================
