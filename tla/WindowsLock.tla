----------------------------- MODULE WindowsLock -----------------------------
(***************************************************************************)
(* The lock of the Windows application: AutoLockService.cs, LockVault and    *)
(* UnlockVault of App.xaml.cs, and the life of the vault's page.             *)
(*                                                                           *)
(* What is posted to the main thread runs later: LockVault when a timer or   *)
(* the background asks for it, and the loop that takes the modal pages off   *)
(* the screen, which waits after each. The few statements of LockVault are   *)
(* one step on the tray's thread too: an unlock, for which the user types a  *)
(* password, does not fit between them. The preferences have their defaults, *)
(* which nothing in the application changes.                                 *)
(***************************************************************************)
EXTENDS Integers, Sequences

CONSTANTS MaxModals, MaxPosts   \* bounds: pages on the screen, calls posted
ASSUME LockAssumption == MaxModals \in Nat /\ MaxPosts \in Nat

VARIABLES
  locked,     \* _isVaultLocked
  timer,      \* AutoLockService._timer runs
  lockFired,  \* AutoLockService._lockFired
  lockPosts,  \* calls of LockVault posted to the main thread
  popLoops,   \* loops of LockVault that take pages off the screen
  modals,     \* Navigation.ModalStack: the vault's page and pages it opens
  server,     \* _extensionServer is there
  popFailed   \* history: a loop of LockVault failed, and no later one has ended

lockVars == <<locked, timer, lockFired, lockPosts, popLoops, modals, server, popFailed>>

LockInit ==
  /\ locked = TRUE /\ timer = FALSE /\ lockFired = FALSE
  /\ lockPosts = 0 /\ popLoops = 0
  /\ modals = <<>> /\ server = FALSE /\ popFailed = FALSE
-----------------------------------------------------------------------------
(* What a handler does to the lock, as a function of the state it finds.     *)
Lock == [locked |-> locked, timer |-> timer, lockFired |-> lockFired,
         lockPosts |-> lockPosts, popLoops |-> popLoops]

SetLock(s) ==
  /\ locked' = s.locked /\ timer' = s.timer /\ lockFired' = s.lockFired
  /\ lockPosts' = s.lockPosts /\ popLoops' = s.popLoops
  /\ UNCHANGED popFailed

StartTimer(s) == [s EXCEPT !.timer = TRUE, !.lockFired = FALSE]

ResetTimer(s) == IF s.lockFired THEN s ELSE StartTimer(s)

OnAppBackground(s) ==
  IF s.lockFired THEN s
  ELSE [s EXCEPT !.lockFired = TRUE, !.timer = FALSE, !.lockPosts = @ + 1]

LockVault(s) ==
  IF s.locked THEN s
  ELSE [s EXCEPT !.locked = TRUE, !.timer = FALSE, !.popLoops = @ + 1]

(* Not in the code: the timer is started as a touch of the page would.       *)
MutUnlockVault(s) == IF s.locked THEN ResetTimer([s EXCEPT !.locked = FALSE]) ELSE s

UnlockVault(s) == IF s.locked THEN StartTimer([s EXCEPT !.locked = FALSE]) ELSE s

(* OnDisappearing of a page that is covered or taken off the screen.         *)
Disappear(s, page) == IF page = "vault" THEN OnAppBackground(s) ELSE s

Top == modals[Len(modals)]
OnTop(page) == modals # <<>> /\ Top = page
-----------------------------------------------------------------------------
(* A page goes on top of those there are; MAUI may or may not tell the page  *)
(* below that it disappears.                                                 *)
Push(page, s, serving) ==
  /\ Len(modals) < MaxModals
  /\ modals' = Append(modals, page)
  /\ \E told \in {{}, {"vault"}} :
       LET covered == told # {} /\ OnTop("vault") IN
       /\ SetLock(IF covered THEN Disappear(s, Top) ELSE s)
       /\ server' = (serving /\ ~covered)

(* The constructor of VaultPage, once a password or Windows Hello was right. *)
(* The buttons that lead to it can be clicked again while they work.         *)
OpenVault ==
  /\ lockPosts < MaxPosts /\ popLoops < MaxPosts
  /\ Push("vault", UnlockVault(ResetTimer(Lock)), TRUE)

(* Adding, editing, the health report, the generator, and pairing. Not all   *)
(* of them reset the timer, and pairing comes up after the answers of a file *)
(* picker and of the other device, whatever is on the screen by then; a page *)
(* that has left the screen brings up nothing any more.                      *)
OpenPage ==
  /\ modals # <<>>
  /\ \E s \in {Lock, ResetTimer(Lock)} : Push("other", s, server)

(* Tabs, search, copying, RenderAll after an item was saved.                 *)
TouchVault ==
  /\ \E k \in DOMAIN modals : modals[k] = "vault"
  /\ SetLock(ResetTimer(Lock))
  /\ UNCHANGED <<modals, server>>

ClosePage ==
  /\ OnTop("other")
  /\ modals' = SubSeq(modals, 1, Len(modals) - 1)
  /\ SetLock(Lock)
  /\ UNCHANGED server

(* OnLockClicked: the page that closes itself does not act on disappearing.  *)
OnLockClicked ==
  /\ OnTop("vault")
  /\ modals' = SubSeq(modals, 1, Len(modals) - 1)
  /\ SetLock(LockVault(Lock))
  /\ UNCHANGED server

OnTrayLockRequested ==
  /\ SetLock(LockVault(Lock))
  /\ UNCHANGED <<modals, server>>

(* The timer goes on ticking until somebody stops it.                        *)
LockTimerTicks ==
  /\ timer /\ lockPosts < MaxPosts
  /\ SetLock([Lock EXCEPT !.lockFired = TRUE, !.lockPosts = @ + 1])
  /\ UNCHANGED <<modals, server>>

WindowDeactivated ==
  /\ SetLock(OnAppBackground(Lock))
  /\ UNCHANGED <<modals, server>>

WindowActivated ==
  /\ SetLock(IF locked THEN Lock ELSE ResetTimer(Lock))
  /\ UNCHANGED <<modals, server>>

RunLockPost ==
  /\ lockPosts > 0
  /\ SetLock(LockVault([Lock EXCEPT !.lockPosts = @ - 1]))
  /\ UNCHANGED <<modals, server>>

(* Not in the code: the page on top is closed, not those below.              *)
MutPopAll ==
  /\ popLoops > 0
  /\ modals' = IF modals = <<>> THEN modals ELSE SubSeq(modals, 1, Len(modals) - 1)
  /\ SetLock([IF modals = <<>> THEN Lock ELSE Disappear(Lock, Top) EXCEPT !.popLoops = @ - 1])
  /\ server' = (server /\ ~OnTop("vault"))

EndLoop(failed) ==
  /\ popLoops' = popLoops - 1 /\ popFailed' = failed
  /\ UNCHANGED <<locked, timer, lockFired, lockPosts, modals, server>>

(* One iteration of LockVault's loop, or its end.                            *)
PopAll ==
  /\ popLoops > 0
  /\ IF modals = <<>> THEN EndLoop(FALSE)
     ELSE /\ modals' = SubSeq(modals, 1, Len(modals) - 1)
          /\ SetLock(Disappear(Lock, Top))
          /\ server' = (server /\ Top # "vault")

(* PopModalAsync throws: the catch ends the loop, and the pages stay.        *)
PopFails == popLoops > 0 /\ modals # <<>> /\ EndLoop(TRUE)

LockNext ==
  \/ OpenVault
  \/ OpenPage
  \/ TouchVault
  \/ ClosePage
  \/ OnLockClicked
  \/ OnTrayLockRequested
  \/ LockTimerTicks
  \/ WindowDeactivated
  \/ WindowActivated
  \/ RunLockPost
  \/ PopAll
  \/ PopFails

LockSpec == LockInit /\ [][LockNext]_lockVars
-----------------------------------------------------------------------------
LockTypeOK ==
  /\ locked \in BOOLEAN /\ timer \in BOOLEAN /\ lockFired \in BOOLEAN
  /\ lockPosts \in 0 .. MaxPosts + 1
  /\ popLoops \in 0 .. MaxPosts + 1
  /\ modals \in Seq({"vault", "other"}) /\ server \in BOOLEAN /\ popFailed \in BOOLEAN

(* UnlockedIsWatched: an unlocked vault always has its lock on the way: the  *)
(* timer runs, or LockVault is posted. A lock that fired suppresses every    *)
(* later start of the timer but the one of an unlock, and posted calls,      *)
(* the tray's thread and unlocks come in any order (AutoLockService.cs       *)
(* 17-67, App.xaml.cs 75-104).                                               *)
UnlockedIsWatched == locked \/ timer \/ lockPosts > 0

(* LockedShowsNothing: while the vault is locked every page of it is gone or *)
(* about to go, also one that was opened while the pages of the session      *)
(* before were still being closed. The one exception is a page that could    *)
(* not be taken off the screen: its loop gives up, and until another loop    *)
(* has come to its end nobody tries again (App.xaml.cs 75-96).               *)
LockedShowsNothing == locked => modals = <<>> \/ popLoops > 0 \/ popFailed
=============================================================================
