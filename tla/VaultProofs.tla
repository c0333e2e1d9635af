----------------------------- MODULE VaultProofs -----------------------------
(***************************************************************************)
(* What is proved of a vault on Windows and of its keys, for any bounds.     *)
(*                                                                           *)
(* The lock: an unlocked vault always has its lock on the way, and a locked  *)
(* one has no page left or a loop that takes it away. The handlers work on a *)
(* record of the lock's state, and so do the lemmas: Watched is what each of *)
(* them keeps. The bounds of the posted calls hold because a call is posted  *)
(* only as lockFired is raised, or by a tick, and only an unlock, which the  *)
(* bound guards, lowers it again.                                            *)
(*                                                                           *)
(* The keys: every box that was ever returned is sealed whole, with a key of *)
(* a vault or of a reset under way, and no two such keys have one salt: a    *)
(* salt is drawn from seals, which only grows. So a key that was stored with *)
(* a salt opens what was sealed with that salt and nothing else.             *)
(***************************************************************************)
EXTENDS WindowsLock, VaultKeys, SequenceTheorems, TLAPS

Locks == [locked : BOOLEAN, timer : BOOLEAN, lockFired : BOOLEAN,
          lockPosts : 0 .. MaxPosts + 1, popLoops : 0 .. MaxPosts + 1]

(* What is posted and what loops leave room for one more, while they may.    *)
Room(s) ==
  /\ ~s.lockFired => s.lockPosts <= MaxPosts
  /\ ~s.locked => s.popLoops <= MaxPosts

Watched(s) == s.locked \/ s.timer \/ s.lockPosts > 0

SafeLock(s) == s \in Locks /\ Room(s) /\ Watched(s)

LockIInv ==
  /\ SafeLock(Lock)
  /\ modals \in Seq({"vault", "other"}) /\ server \in BOOLEAN /\ popFailed \in BOOLEAN
  /\ LockedShowsNothing
-----------------------------------------------------------------------------
(* A lock of which some fields are set is one still.                         *)
LEMMA FieldsSet ==
  ASSUME NEW s \in Locks, NEW n \in 0 .. MaxPosts + 1
  PROVE  /\ [s EXCEPT !.lockPosts = n] \in Locks
         /\ [s EXCEPT !.lockFired = TRUE, !.lockPosts = n] \in Locks
         /\ [s EXCEPT !.lockFired = TRUE, !.timer = FALSE, !.lockPosts = n] \in Locks
         /\ [s EXCEPT !.locked = TRUE, !.timer = FALSE, !.popLoops = n] \in Locks
         /\ [s EXCEPT !.popLoops = n] \in Locks
BY DEF Locks

(* So is one that is unlocked, or whose timer is started.                    *)
LEMMA FlagsSet ==
  ASSUME NEW s \in Locks
  PROVE  /\ [s EXCEPT !.locked = FALSE] \in Locks
         /\ [s EXCEPT !.timer = TRUE, !.lockFired = FALSE] \in Locks
BY DEF Locks

(* One call may be posted before the lock has fired, and one loop started    *)
(* before the vault is locked.                                               *)
LEMMA RoomForOne ==
  ASSUME NEW s \in Locks, Room(s)
  PROVE  /\ s.locked \in BOOLEAN /\ s.lockPosts \in Nat /\ s.popLoops \in Nat
         /\ ~s.lockFired => s.lockPosts + 1 \in 0 .. MaxPosts + 1
         /\ ~s.locked => s.popLoops + 1 \in 0 .. MaxPosts + 1
BY LockAssumption DEF LockAssumption, Locks, Room

(* The handlers keep the lock safe, and only LockVault and UnlockVault       *)
(* change whether the vault is locked.                                       *)
LEMMA ResetTimerSafe ==
  ASSUME NEW s \in Locks, SafeLock(s)
  PROVE  /\ SafeLock(ResetTimer(s))
         /\ ResetTimer(s).locked = s.locked /\ ResetTimer(s).popLoops = s.popLoops
         /\ ResetTimer(s).lockPosts = s.lockPosts
<1>1. ResetTimer(s) \in Locks
  BY FlagsSet DEF SafeLock, ResetTimer, StartTimer
<1>2. /\ ResetTimer(s).locked = s.locked /\ ResetTimer(s).popLoops = s.popLoops
      /\ ResetTimer(s).lockPosts = s.lockPosts
  BY DEF Locks, ResetTimer, StartTimer
<1>3. Room(ResetTimer(s)) /\ Watched(ResetTimer(s))
  BY DEF SafeLock, Locks, Room, Watched, ResetTimer, StartTimer
<1> QED BY <1>1, <1>2, <1>3 DEF SafeLock

(* An application in the background posts the lock unless it has fired.      *)
LEMMA OnAppBackgroundSafe ==
  ASSUME NEW s \in Locks, SafeLock(s)
  PROVE  /\ SafeLock(OnAppBackground(s))
         /\ OnAppBackground(s).locked = s.locked
         /\ OnAppBackground(s).popLoops = s.popLoops
<1>1. OnAppBackground(s) \in Locks
  BY FieldsSet, RoomForOne DEF SafeLock, OnAppBackground
<1>2. OnAppBackground(s).locked = s.locked /\ OnAppBackground(s).popLoops = s.popLoops
  BY DEF Locks, OnAppBackground
<1>3. Room(OnAppBackground(s)) /\ Watched(OnAppBackground(s))
  BY RoomForOne DEF SafeLock, Locks, Room, Watched, OnAppBackground
<1> QED BY <1>1, <1>2, <1>3 DEF SafeLock

(* LockVault needs no Watched, which RunLockPost may have ended.             *)
LEMMA LockVaultSafe ==
  ASSUME NEW s \in Locks, Room(s)
  PROVE  /\ SafeLock(LockVault(s))
         /\ s.locked => LockVault(s).popLoops = s.popLoops
         /\ ~s.locked => LockVault(s).popLoops > 0
<1>1. LockVault(s) \in Locks
  BY FieldsSet, RoomForOne DEF LockVault
<1>2. /\ s.locked => LockVault(s).popLoops = s.popLoops
      /\ ~s.locked => LockVault(s).popLoops > 0
  BY RoomForOne DEF Locks, LockVault
<1>3. Room(LockVault(s)) /\ Watched(LockVault(s))
  BY DEF Locks, Room, Watched, LockVault
<1> QED BY <1>1, <1>2, <1>3 DEF SafeLock

(* UnlockVault starts the timer that locks again.                            *)
LEMMA UnlockVaultSafe ==
  ASSUME NEW s \in Locks, SafeLock(s), s.lockPosts < MaxPosts, s.popLoops < MaxPosts
  PROVE  SafeLock(UnlockVault(s)) /\ ~UnlockVault(s).locked
<1>1. UnlockVault(s) \in Locks
  BY FlagsSet DEF UnlockVault, StartTimer
<1>2. ~UnlockVault(s).locked
  BY DEF Locks, UnlockVault, StartTimer
<1>3. /\ UnlockVault(s).lockPosts = s.lockPosts
      /\ UnlockVault(s).popLoops = s.popLoops
  BY DEF Locks, UnlockVault, StartTimer
<1>4. Room(UnlockVault(s))
  BY <1>3, LockAssumption, RoomForOne DEF LockAssumption, SafeLock, Room
<1>5. Watched(UnlockVault(s))
  BY DEF SafeLock, Locks, Watched, UnlockVault, StartTimer
<1> QED BY <1>1, <1>2, <1>4, <1>5 DEF SafeLock

(* A page that disappears changes neither the vault nor the loops.           *)
LEMMA DisappearSafe ==
  ASSUME NEW s \in Locks, SafeLock(s), NEW page
  PROVE  /\ SafeLock(Disappear(s, page))
         /\ Disappear(s, page).locked = s.locked
         /\ Disappear(s, page).popLoops = s.popLoops
BY OnAppBackgroundSafe DEF Disappear

(* The variables after SetLock are the record's fields.                      *)
LEMMA SetLockIs ==
  ASSUME NEW s \in Locks, SetLock(s)
  PROVE  Lock' = s
BY DEF SetLock, Lock, Locks
-----------------------------------------------------------------------------
(* At first the vault is locked and nothing is shown.                        *)
LEMMA LockInitInv == LockInit => LockIInv
<1> SUFFICES ASSUME LockInit PROVE LockIInv
  OBVIOUS
<1>1. Lock \in Locks
  <2>1. locked \in BOOLEAN /\ timer \in BOOLEAN /\ lockFired \in BOOLEAN
    BY DEF LockInit
  <2>2. lockPosts \in 0 .. MaxPosts + 1 /\ popLoops \in 0 .. MaxPosts + 1
    BY LockAssumption DEF LockAssumption, LockInit
  <2> QED BY <2>1, <2>2 DEF Lock, Locks
<1>2. Room(Lock) /\ Watched(Lock)
  BY LockAssumption DEF LockAssumption, LockInit, Lock, Room, Watched
<1>3. modals \in Seq({"vault", "other"}) /\ server \in BOOLEAN
  BY EmptySeq DEF LockInit
<1>4. LockedShowsNothing
  BY DEF LockInit, LockedShowsNothing
<1>5. popFailed \in BOOLEAN
  BY DEF LockInit
<1> QED BY <1>1, <1>2, <1>3, <1>4, <1>5 DEF SafeLock, LockIInv

(* A page is pushed while the vault is unlocked or a loop will take it away. *)
LEMMA PushInv ==
  ASSUME LockIInv, NEW page \in {"vault", "other"}, NEW s \in Locks, SafeLock(s),
         NEW serving \in BOOLEAN, Push(page, s, serving),
         s.locked => s.popLoops > 0 \/ popFailed
  PROVE  LockIInv'
<1>1. PICK told \in {{}, {"vault"}} :
        LET covered == told # {} /\ OnTop("vault") IN
        /\ SetLock(IF covered THEN Disappear(s, Top) ELSE s)
        /\ server' = (serving /\ ~covered)
  BY DEF Push
<1> DEFINE t == IF told # {} /\ OnTop("vault") THEN Disappear(s, Top) ELSE s
<1>2. SafeLock(t) /\ t.locked = s.locked /\ t.popLoops = s.popLoops
  BY DisappearSafe
<1>3. Lock' = t
  BY <1>1, <1>2, SetLockIs DEF SafeLock
<1>4. locked' = t.locked /\ popLoops' = t.popLoops /\ popFailed' = popFailed
  BY <1>1 DEF SetLock
<1>5. SafeLock(Lock')
  BY <1>2, <1>3
<1>6. modals' \in Seq({"vault", "other"})
  BY DEF Push, LockIInv
<1>7. server' \in BOOLEAN /\ popFailed' \in BOOLEAN
  BY <1>1, <1>4 DEF LockIInv
<1>8. LockedShowsNothing'
  BY <1>2, <1>4 DEF LockedShowsNothing
<1> QED BY <1>5, <1>6, <1>7, <1>8 DEF LockIInv

(* The vault's page: the reset by its constructor, then the unlock.          *)
LEMMA OpenVaultInv == ASSUME LockIInv, OpenVault PROVE LockIInv'
<1> DEFINE r == ResetTimer(Lock)
<1>1. Lock \in Locks /\ SafeLock(Lock)
  BY DEF LockIInv, SafeLock
<1>2. SafeLock(r) /\ r.lockPosts = Lock.lockPosts /\ r.popLoops = Lock.popLoops
  BY <1>1, ResetTimerSafe
<1>3. r.lockPosts < MaxPosts /\ r.popLoops < MaxPosts
  BY <1>2 DEF OpenVault, Lock
<1>4. SafeLock(UnlockVault(r)) /\ ~UnlockVault(r).locked
  BY <1>2, <1>3, UnlockVaultSafe DEF SafeLock
<1>5. Push("vault", UnlockVault(r), TRUE)
  BY DEF OpenVault
<1> QED BY <1>4, <1>5, PushInv DEF SafeLock

(* A page that the user opens is pushed over that of the vault.              *)
LEMMA OpenPageInv == ASSUME LockIInv, OpenPage PROVE LockIInv'
<1>1. Lock \in Locks /\ SafeLock(Lock)
  BY DEF LockIInv, SafeLock
<1>2. PICK r \in {Lock, ResetTimer(Lock)} : Push("other", r, server)
  BY DEF OpenPage
<1>3. SafeLock(r) /\ r.locked = Lock.locked /\ r.popLoops = Lock.popLoops
  BY <1>1, ResetTimerSafe
<1>4. r.locked => r.popLoops > 0 \/ popFailed
  BY <1>3 DEF OpenPage, LockIInv, LockedShowsNothing, Lock
<1>5. server \in BOOLEAN /\ "other" \in {"vault", "other"} /\ r \in Locks
  BY <1>3 DEF LockIInv, SafeLock
<1> QED BY <1>2, <1>3, <1>4, <1>5, PushInv

(* A step that leaves the pages alone, or takes the one on top away.         *)
LEMMA LockStepInv ==
  ASSUME LockIInv, NEW s \in Locks, SetLock(s), SafeLock(s),
         modals' = modals \/ modals' = SubSeq(modals, 1, Len(modals) - 1),
         server' \in BOOLEAN,
         s.locked => modals' = <<>> \/ s.popLoops > 0 \/ popFailed
  PROVE  LockIInv'
<1>1. Lock' = s
  BY SetLockIs
<1>2. SafeLock(Lock')
  BY <1>1
<1>3. modals' \in Seq({"vault", "other"}) /\ popFailed' \in BOOLEAN
  BY DEF LockIInv, SetLock
<1>4. LockedShowsNothing'
  BY DEF SetLock, LockedShowsNothing
<1> QED BY <1>2, <1>3, <1>4 DEF LockIInv

(* The handlers that start or stop the timer, or post a call.                *)
LEMMA TimerStepInv ==
  ASSUME LockIInv, TouchVault \/ ClosePage \/ WindowDeactivated \/ WindowActivated
                   \/ LockTimerTicks
  PROVE  LockIInv'
<1>1. Lock \in Locks /\ SafeLock(Lock) /\ server \in BOOLEAN
  BY DEF LockIInv, SafeLock
<1>2. Lock.locked => modals = <<>> \/ Lock.popLoops > 0 \/ popFailed
  BY DEF LockIInv, LockedShowsNothing, Lock
<1>3. CASE TouchVault
  <2> DEFINE r == ResetTimer(Lock)
  <2>1. SafeLock(r) /\ r.locked = Lock.locked /\ r.popLoops = Lock.popLoops
    BY <1>1, ResetTimerSafe
  <2>2. SetLock(r) /\ modals' = modals /\ server' = server
    BY <1>3 DEF TouchVault
  <2> QED BY <1>1, <1>2, <2>1, <2>2, LockStepInv DEF SafeLock
<1>4. CASE ClosePage
  <2>1. SetLock(Lock) /\ modals # <<>> /\ server' = server
    BY <1>4 DEF ClosePage, OnTop
  <2>2. modals' = SubSeq(modals, 1, Len(modals) - 1)
    BY <1>4 DEF ClosePage
  <2> QED BY <1>1, <1>2, <2>1, <2>2, LockStepInv
<1>5. CASE WindowDeactivated
  <2> DEFINE r == OnAppBackground(Lock)
  <2>1. SafeLock(r) /\ r.locked = Lock.locked /\ r.popLoops = Lock.popLoops
    BY <1>1, OnAppBackgroundSafe
  <2>2. SetLock(r) /\ modals' = modals /\ server' = server
    BY <1>5 DEF WindowDeactivated
  <2> QED BY <1>1, <1>2, <2>1, <2>2, LockStepInv DEF SafeLock
<1>6. CASE WindowActivated
  <2> DEFINE r == IF locked THEN Lock ELSE ResetTimer(Lock)
  <2>1. SafeLock(r) /\ r.locked = Lock.locked /\ r.popLoops = Lock.popLoops
    BY <1>1, ResetTimerSafe
  <2>2. SetLock(r) /\ modals' = modals /\ server' = server
    BY <1>6 DEF WindowActivated
  <2> QED BY <1>1, <1>2, <2>1, <2>2, LockStepInv DEF SafeLock
<1>7. CASE LockTimerTicks
  <2> DEFINE r == [Lock EXCEPT !.lockFired = TRUE, !.lockPosts = @ + 1]
  <2>1. Lock.lockPosts + 1 \in 0 .. MaxPosts + 1 /\ Lock.lockPosts \in Nat
    BY <1>1, <1>7, RoomForOne, LockAssumption
    DEF LockAssumption, LockTimerTicks, SafeLock, Lock
  <2>2. r \in Locks
    BY <1>1, <2>1, FieldsSet
  <2>3. r.locked = Lock.locked /\ r.popLoops = Lock.popLoops
    BY <1>1 DEF Locks
  <2>4. Room(r) /\ Watched(r)
    BY <1>1, <2>1 DEF SafeLock, Room, Watched, Locks
  <2>5. SetLock(r) /\ modals' = modals /\ server' = server
    BY <1>7 DEF LockTimerTicks
  <2> QED BY <1>1, <1>2, <2>2, <2>3, <2>4, <2>5, LockStepInv DEF SafeLock
<1> QED BY <1>3, <1>4, <1>5, <1>6, <1>7

(* LockVault, from the button, from the tray, and when a posted call runs.   *)
LEMMA LockVaultStepInv ==
  ASSUME LockIInv, OnLockClicked \/ OnTrayLockRequested \/ RunLockPost
  PROVE  LockIInv'
<1>1. Lock \in Locks /\ SafeLock(Lock) /\ server \in BOOLEAN
  BY DEF LockIInv, SafeLock
<1>2. Lock.locked => modals = <<>> \/ Lock.popLoops > 0 \/ popFailed
  BY DEF LockIInv, LockedShowsNothing, Lock
<1>3. CASE OnTrayLockRequested
  <2>1. SafeLock(LockVault(Lock)) /\ (Lock.locked => LockVault(Lock).popLoops = Lock.popLoops)
        /\ (~Lock.locked => LockVault(Lock).popLoops > 0)
    BY <1>1, LockVaultSafe DEF SafeLock
  <2>2. SetLock(LockVault(Lock)) /\ modals' = modals /\ server' = server
    BY <1>3 DEF OnTrayLockRequested
  <2> QED BY <1>1, <1>2, <2>1, <2>2, LockStepInv DEF SafeLock
<1>4. CASE OnLockClicked
  <2>1. SafeLock(LockVault(Lock)) /\ (Lock.locked => LockVault(Lock).popLoops = Lock.popLoops)
        /\ (~Lock.locked => LockVault(Lock).popLoops > 0)
    BY <1>1, LockVaultSafe DEF SafeLock
  <2>2. SetLock(LockVault(Lock)) /\ modals # <<>> /\ server' = server
        /\ modals' = SubSeq(modals, 1, Len(modals) - 1)
    BY <1>4 DEF OnLockClicked, OnTop
  <2> QED BY <1>1, <1>2, <2>1, <2>2, LockStepInv DEF SafeLock
<1>5. CASE RunLockPost
  <2> DEFINE r == [Lock EXCEPT !.lockPosts = @ - 1]
  <2>1. Lock.lockPosts > 0 /\ Lock.lockPosts \in 0 .. MaxPosts + 1
    BY <1>1, <1>5 DEF RunLockPost, Lock, Locks
  <2>2. Lock.lockPosts - 1 \in 0 .. MaxPosts + 1
    BY <2>1, LockAssumption DEF LockAssumption
  <2>3. r \in Locks
    BY <1>1, <2>2, FieldsSet
  <2>4. r.locked = Lock.locked /\ r.popLoops = Lock.popLoops
    BY <1>1 DEF Locks
  <2>5. Room(r)
    BY <1>1, <2>1, LockAssumption DEF LockAssumption, SafeLock, Room, Locks
  <2>6. SafeLock(LockVault(r)) /\ (r.locked => LockVault(r).popLoops = r.popLoops)
        /\ (~r.locked => LockVault(r).popLoops > 0)
    BY <2>3, <2>5, LockVaultSafe
  <2>7. SetLock(LockVault(r)) /\ modals' = modals /\ server' = server
    BY <1>5 DEF RunLockPost
  <2> QED BY <1>1, <1>2, <2>4, <2>6, <2>7, LockStepInv DEF SafeLock
<1> QED BY <1>3, <1>4, <1>5

(* A loop that ends, with no page left or because it failed.                 *)
LEMMA EndLoopInv ==
  ASSUME LockIInv, popLoops > 0, NEW failed \in BOOLEAN, EndLoop(failed),
         locked => modals = <<>> \/ failed
  PROVE  LockIInv'
<1>1. Lock \in Locks /\ SafeLock(Lock) /\ Lock.popLoops > 0
  BY DEF LockIInv, SafeLock, Lock
<1> DEFINE r == [Lock EXCEPT !.popLoops = @ - 1]
<1>2. Lock.popLoops - 1 \in 0 .. MaxPosts + 1
  BY <1>1, LockAssumption DEF LockAssumption, Locks
<1>3. r \in Locks
  BY <1>1, <1>2, FieldsSet
<1>4. Room(r) /\ Watched(r)
  BY <1>1, LockAssumption DEF LockAssumption, SafeLock, Room, Watched, Locks
<1>5. Lock' = r
  BY DEF EndLoop, Lock
<1>6. SafeLock(Lock')
  BY <1>3, <1>4, <1>5 DEF SafeLock
<1>7. /\ modals' \in Seq({"vault", "other"})
      /\ server' \in BOOLEAN /\ popFailed' \in BOOLEAN
  BY DEF EndLoop, LockIInv
<1>8. LockedShowsNothing'
  BY DEF EndLoop, LockedShowsNothing
<1> QED BY <1>6, <1>7, <1>8 DEF LockIInv

(* The loop ends when no page is left, or gives up.                          *)
LEMMA PopAllInv == ASSUME LockIInv, PopAll \/ PopFails PROVE LockIInv'
<1>1. Lock \in Locks /\ SafeLock(Lock) /\ server \in BOOLEAN /\ popLoops > 0
      /\ Lock.popLoops = popLoops
  BY DEF LockIInv, SafeLock, PopAll, PopFails, Lock
<1>2. CASE PopAll /\ modals = <<>>
  BY <1>1, <1>2, EndLoopInv DEF PopAll
<1>3. CASE PopAll /\ modals # <<>>
  <2> DEFINE r == Disappear(Lock, Top)
  <2>1. SafeLock(r) /\ r.popLoops = Lock.popLoops
    BY <1>1, DisappearSafe
  <2>2. SetLock(r) /\ modals' = SubSeq(modals, 1, Len(modals) - 1)
        /\ server' = (server /\ Top # "vault")
    BY <1>3 DEF PopAll
  <2>3. server' \in BOOLEAN
    BY <2>2
  <2> QED BY <1>1, <2>1, <2>2, <2>3, LockStepInv DEF SafeLock
<1>4. CASE PopFails
  BY <1>1, <1>4, EndLoopInv DEF PopFails
<1> QED BY <1>2, <1>3, <1>4

(* Every step keeps an unlocked vault watched.                               *)
LEMMA LockNextInv == LockIInv /\ [LockNext]_lockVars => LockIInv'
<1> SUFFICES ASSUME LockIInv, [LockNext]_lockVars PROVE LockIInv'
  OBVIOUS
<1>1. CASE OpenVault \/ OpenPage
  BY <1>1, OpenVaultInv, OpenPageInv
<1>2. CASE TouchVault \/ ClosePage \/ WindowDeactivated \/ WindowActivated \/ LockTimerTicks
  BY <1>2, TimerStepInv
<1>3. CASE OnLockClicked \/ OnTrayLockRequested \/ RunLockPost
  BY <1>3, LockVaultStepInv
<1>4. CASE PopAll \/ PopFails
  BY <1>4, PopAllInv
<1>5. CASE UNCHANGED lockVars
  BY <1>5 DEF lockVars, LockIInv, LockedShowsNothing, Lock, SafeLock, Room, Watched
<1> QED BY <1>1, <1>2, <1>3, <1>4, <1>5 DEF LockNext

(* The invariant holds of every behaviour of the lock.                       *)
LEMMA LockAlways == LockSpec => []LockIInv
BY LockInitInv, LockNextInv, PTL DEF LockSpec
-----------------------------------------------------------------------------
(* LockTypes: the lock keeps to its types, and what is posted and what     *)
(* loops to its bound, although only an unlock and a tick look at it         *)
(* (AutoLockService.cs 17-59, App.xaml.cs 75-104).                           *)
THEOREM LockTypes == LockSpec => []LockTypeOK
<1>1. LockIInv => LockTypeOK
  BY DEF LockIInv, SafeLock, Locks, Lock, LockTypeOK
<1> QED BY <1>1, LockAlways, PTL

(* AlwaysWatched: UnlockedIsWatched for any bounds: whatever the order of    *)
(* unlocks, posted locks, ticks and windows, an unlocked vault has its timer *)
(* or a lock on the way (AutoLockService.cs 17-67).                          *)
THEOREM AlwaysWatched == LockSpec => []UnlockedIsWatched
<1>1. LockIInv => UnlockedIsWatched
  BY DEF LockIInv, SafeLock, Watched, Lock, UnlockedIsWatched
<1> QED BY <1>1, LockAlways, PTL

(* ShowsNothing: LockedShowsNothing for any number of pages and loops        *)
(* (App.xaml.cs 75-96).                                                      *)
THEOREM ShowsNothing == LockSpec => []LockedShowsNothing
<1>1. LockIInv => LockedShowsNothing
  BY DEF LockIInv
<1> QED BY <1>1, LockAlways, PTL
-----------------------------------------------------------------------------
(* The keys of the vaults, and of the resets that have derived theirs.       *)
ResetKeys ==
  {DeriveKey(call.password, call.salt) : call \in {c \in resets : c.at = "encrypt"}}

KeySet == {KeyOf(vault) : vault \in vaults} \cup ResetKeys

OneKeyPerSalt ==
  /\ \A key \in KeySet : key.salt \in Nat /\ key.salt <= seals
  /\ \A key, other \in KeySet : key.salt = other.salt => key = other

(* A vault is sealed with its password and the salt beside it.               *)
VaultIsSealed(vault) ==
  \E iv : vault.file = WithSalt(vault.file.salt, Encrypt(vault.items, KeyOf(vault), iv))

(* What a call of reEncryptVault has decrypted is what its vault was given.  *)
CallIsTrue(call) ==
  /\ VaultIsSealed(call.vault)
  /\ call.at \in {"derive", "encrypt"} => call.plain = call.vault.items

EntryIsTrue(entry) == entry.key \in KeySet /\ entry.key.salt = entry.salt

BackupIsSealed(backup) ==
  \E key \in KeySet : \E iv :
    backup.sealed = Encrypt(backup.items, key, iv) /\ key.salt = backup.salt

(* A kit opens with its passphrase, and gives the key of a vault.            *)
KitHolds(kit) ==
  \E key \in KeySet : \E iv :
    /\ kit.data = WithSalt(kit.data.salt,
                           Encrypt(key, DeriveKey(kit.passphrase, kit.data.salt), iv))
    /\ key.salt = kit.salt

KeysIInv ==
  /\ seals \in Nat /\ OneKeyPerSalt
  /\ \A vault \in vaults : VaultIsSealed(vault)
  /\ \A call \in resets : CallIsTrue(call)
  /\ \A entry \in recoveryKeys : EntryIsTrue(entry)
  /\ \A backup \in backups : BackupIsSealed(backup)
  /\ \A kit \in kits : KitHolds(kit)
-----------------------------------------------------------------------------
(* decrypt gives what was encrypted, to who has the key, and nothing to      *)
(* anybody else.                                                             *)
LEMMA DecryptOpens ==
  ASSUME NEW plain, NEW key, NEW iv, NEW other
  PROVE  Decrypt(Encrypt(plain, key, iv), other) = IF other = key THEN {plain} ELSE {}
BY DEF Decrypt, Encrypt

(* So it is with a salt beside it.                                           *)
LEMMA SaltedOpens ==
  ASSUME NEW plain, NEW key, NEW iv, NEW salt, NEW other
  PROVE  Decrypt(WithSalt(salt, Encrypt(plain, key, iv)), other)
           = IF other = key THEN {plain} ELSE {}
BY DEF Decrypt, WithSalt, Encrypt

(* A key has the password and the salt it is derived with.                   *)
LEMMA KeyFields ==
  ASSUME NEW p, NEW q, NEW s, NEW t
  PROVE  /\ DeriveKey(p, s).salt = s
         /\ DeriveKey(p, s) = DeriveKey(q, t) <=> p = q /\ s = t
BY DEF DeriveKey

(* A vault opens with its key and no other.                                  *)
LEMMA VaultOpens ==
  ASSUME NEW vault, VaultIsSealed(vault), NEW key
  PROVE  Decrypt(vault.file, key) = IF key = KeyOf(vault) THEN {vault.items} ELSE {}
BY SaltedOpens DEF VaultIsSealed

(* Items sealed with a password and a salt are a vault with that key.        *)
LEMMA SealedIsVault ==
  ASSUME NEW items, NEW password, NEW salt, NEW iv, NEW vault,
         vault = Vault(WithSalt(salt, Encrypt(items, DeriveKey(password, salt), iv)),
                       password, items)
  PROVE  VaultIsSealed(vault) /\ KeyOf(vault) = DeriveKey(password, salt)
<1>1. /\ vault.file = WithSalt(salt, Encrypt(items, DeriveKey(password, salt), iv))
      /\ vault.password = password /\ vault.items = items
  BY DEF Vault
<1>2. vault.file.salt = salt
  BY <1>1 DEF WithSalt
<1>3. KeyOf(vault) = DeriveKey(password, salt)
  BY <1>1, <1>2 DEF KeyOf
<1> QED BY <1>1, <1>2, <1>3 DEF VaultIsSealed

(* The key of a kit, and what it opens.                                      *)
LEMMA KitGives ==
  ASSUME NEW kit, KitHolds(kit), NEW passphrase
  PROVE  \E key \in KeySet :
           /\ key.salt = kit.salt
           /\ UnwrapVaultKey(kit.data, passphrase)
                = IF passphrase = kit.passphrase THEN {key} ELSE {}
<1>0. PICK key \in KeySet : \E iv :
        /\ kit.data = WithSalt(kit.data.salt,
                               Encrypt(key, DeriveKey(kit.passphrase, kit.data.salt), iv))
        /\ key.salt = kit.salt
  BY DEF KitHolds
<1>1. PICK iv :
        /\ kit.data = WithSalt(kit.data.salt,
                               Encrypt(key, DeriveKey(kit.passphrase, kit.data.salt), iv))
        /\ key.salt = kit.salt
  BY <1>0
<1>2. UnwrapVaultKey(kit.data, passphrase)
        = IF DeriveKey(passphrase, kit.data.salt) = DeriveKey(kit.passphrase, kit.data.salt)
          THEN {key} ELSE {}
  BY <1>1, SaltedOpens DEF UnwrapVaultKey
<1>3. DeriveKey(passphrase, kit.data.salt) = DeriveKey(kit.passphrase, kit.data.salt)
        <=> passphrase = kit.passphrase
  BY KeyFields
<1>4. UnwrapVaultKey(kit.data, passphrase) = IF passphrase = kit.passphrase THEN {key} ELSE {}
  BY <1>2, <1>3
<1> QED BY <1>1, <1>4
-----------------------------------------------------------------------------
(* No key gets lost, and a new one has the salt that was drawn last: what    *)
(* was stored before stays true.                                             *)
LEMMA KeysGrow ==
  ASSUME KeysIInv, seals' \in Nat, seals' >= seals, NEW new,
         KeySet' = KeySet \cup {new},
         new \in KeySet \/ (new.salt = seals + 1 /\ seals' >= seals + 1)
  PROVE  /\ OneKeyPerSalt'
         /\ \A entry \in recoveryKeys : EntryIsTrue(entry)'
         /\ \A backup \in backups : BackupIsSealed(backup)'
         /\ \A kit \in kits : KitHolds(kit)'
<1>1. \A key \in KeySet : key.salt \in Nat /\ key.salt <= seals
  BY DEF KeysIInv, OneKeyPerSalt
<1>2. \A key, other \in KeySet : key.salt = other.salt => key = other
  BY DEF KeysIInv, OneKeyPerSalt
<1>3. seals \in Nat
  BY DEF KeysIInv
<1>4. OneKeyPerSalt'
  <2>1. \A key \in KeySet' : key.salt \in Nat /\ key.salt <= seals'
    BY <1>1, <1>3
  <2>2. ASSUME NEW key \in KeySet', NEW other \in KeySet', key.salt = other.salt
        PROVE  key = other
    BY <1>1, <1>2, <1>3, <2>2
  <2> QED BY <2>1, <2>2 DEF OneKeyPerSalt
<1>5. \A entry \in recoveryKeys : EntryIsTrue(entry)'
  BY DEF KeysIInv, EntryIsTrue
<1>6. \A backup \in backups : BackupIsSealed(backup)'
  BY DEF KeysIInv, BackupIsSealed
<1>7. \A kit \in kits : KitHolds(kit)'
  BY DEF KeysIInv, KitHolds
<1> QED BY <1>4, <1>5, <1>6, <1>7

(* A step that adds to the vaults one that is sealed, with a key of before   *)
(* or with the salt that was drawn last.                                     *)
LEMMA VaultAdded ==
  ASSUME KeysIInv, NEW vault, VaultIsSealed(vault),
         \/ KeyOf(vault) \in KeySet
         \/ KeyOf(vault).salt = seals + 1 /\ seals' >= seals + 1,
         vaults' = vaults \cup {vault}, seals' \in Nat, seals' >= seals,
         KeySet' = KeySet \cup {KeyOf(vault)}, resets' \subseteq resets,
         UNCHANGED <<recoveryKeys, backups, kits>>
  PROVE  KeysIInv'
<1>1. /\ OneKeyPerSalt'
      /\ \A entry \in recoveryKeys : EntryIsTrue(entry)'
      /\ \A backup \in backups : BackupIsSealed(backup)'
      /\ \A kit \in kits : KitHolds(kit)'
  BY KeysGrow
<1>2. \A v \in vaults' : VaultIsSealed(v)
  BY DEF KeysIInv
<1>3. \A call \in resets' : CallIsTrue(call)
  BY DEF KeysIInv
<1> QED BY <1>1, <1>2, <1>3 DEF KeysIInv, VaultIsSealed, CallIsTrue

(* A step that leaves the vaults and the calls adds no key.                  *)
LEMMA SameKeys ==
  ASSUME KeysIInv, UNCHANGED <<vaults, resets>>, seals' \in Nat, seals' >= seals
  PROVE  /\ KeySet' = KeySet /\ OneKeyPerSalt'
         /\ \A vault \in vaults' : VaultIsSealed(vault)
         /\ \A call \in resets' : CallIsTrue(call)
<1>1. KeySet' = KeySet
  BY DEF KeySet, ResetKeys, KeyOf, DeriveKey
<1>2. OneKeyPerSalt'
  BY <1>1 DEF KeysIInv, OneKeyPerSalt
<1> QED BY <1>1, <1>2 DEF KeysIInv

(* A vault's key is one of the keys.                                         *)
LEMMA KeyIsKnown ==
  ASSUME NEW vault \in vaults PROVE KeyOf(vault) \in KeySet
BY DEF KeySet

(* The keys of the vaults with one more.                                     *)
LEMMA KeysWithOne ==
  ASSUME NEW vault, vaults' = vaults \cup {vault}, resets' = resets
  PROVE  KeySet' = KeySet \cup {KeyOf(vault)}
BY DEF KeySet, ResetKeys
-----------------------------------------------------------------------------
(* Nothing was returned yet.                                                 *)
LEMMA KeysInitInv == KeysInit => KeysIInv
BY DEF KeysInit, KeysIInv, OneKeyPerSalt, KeySet, ResetKeys

(* A new vault has a key with the salt just drawn.                           *)
LEMMA CreateVaultInv ==
  ASSUME KeysIInv, NEW password, NEW items, CreateVault(password, items)
  PROVE  KeysIInv'
<1>1. PICK vault :
        vault = Vault(WithSalt(seals + 1, Encrypt(items, DeriveKey(password, seals + 1),
                                                  seals + 2)), password, items)
  OBVIOUS
<1>2. vaults' = vaults \cup {vault} /\ resets' = resets
      /\ UNCHANGED <<recoveryKeys, backups, kits>>
  BY <1>1 DEF CreateVault
<1>3. VaultIsSealed(vault) /\ KeyOf(vault).salt = seals + 1
  BY <1>1, SealedIsVault, KeyFields
<1>4. seals' \in Nat /\ seals' >= seals + 1 /\ seals' >= seals
  BY DEF CreateVault, Draw, KeysIInv
<1>5. KeySet' = KeySet \cup {KeyOf(vault)}
  BY <1>2, KeysWithOne
<1> QED BY <1>2, <1>3, <1>4, <1>5, VaultAdded

(* A vault that is saved again keeps its key.                                *)
LEMMA SavedAgain ==
  ASSUME KeysIInv, NEW old \in vaults, NEW items, NEW iv, NEW vault,
         vault = Vault(WithSalt(old.file.salt, Encrypt(items, KeyOf(old), iv)),
                       old.password, items),
         vaults' = vaults \cup {vault}, Draw(1),
         UNCHANGED <<recoveryKeys, backups, kits, resets>>
  PROVE  KeysIInv'
<1>1. KeyOf(old) = DeriveKey(old.password, old.file.salt)
  BY DEF KeyOf
<1>2. VaultIsSealed(vault) /\ KeyOf(vault) = KeyOf(old)
  BY <1>1, SealedIsVault
<1>3. KeyOf(vault) \in KeySet
  BY <1>2, KeyIsKnown
<1>4. seals' \in Nat /\ seals' >= seals
  BY DEF Draw, KeysIInv
<1>5. KeySet' = KeySet \cup {KeyOf(vault)}
  BY KeysWithOne
<1> QED BY <1>2, <1>3, <1>4, <1>5, VaultAdded

(* encryptVault with new items.                                              *)
LEMMA SaveVaultInv ==
  ASSUME KeysIInv, NEW vault \in vaults, NEW items, SaveVault(vault, items)
  PROVE  KeysIInv'
BY SavedAgain DEF SaveVault

(* What a backup gives is what was backed up.                                *)
LEMMA RestoreBackupInv ==
  ASSUME KeysIInv, NEW vault \in vaults, NEW kit, NEW backup \in backups,
         RestoreBackup(vault, kit, backup)
  PROVE  KeysIInv'
<1>1. PICK key, plain :
        /\ plain \in Decrypt(backup.sealed, key)
        /\ vaults' = vaults \cup
             {Vault(WithSalt(vault.file.salt, Encrypt(plain, KeyOf(vault), seals + 1)),
                    vault.password, backup.items)}
  BY DEF RestoreBackup
<1>2. \E k \in KeySet : \E iv : backup.sealed = Encrypt(backup.items, k, iv)
  BY DEF KeysIInv, BackupIsSealed
<1>3. plain = backup.items
  BY <1>1, <1>2, DecryptOpens
<1> QED BY <1>1, <1>3, SavedAgain DEF RestoreBackup

(* An entry holds the key of its vault.                                      *)
LEMMA EncryptRecoveryKeyInv ==
  ASSUME KeysIInv, NEW vault \in vaults, EncryptRecoveryKey(vault)
  PROVE  KeysIInv'
<1>1. UNCHANGED <<vaults, resets>> /\ backups' = backups /\ kits' = kits /\ seals' = seals
  BY DEF EncryptRecoveryKey
<1>2. seals' \in Nat /\ seals' >= seals
  BY <1>1 DEF KeysIInv
<1>3. /\ KeySet' = KeySet /\ OneKeyPerSalt'
      /\ \A v \in vaults' : VaultIsSealed(v)
      /\ \A call \in resets' : CallIsTrue(call)
  BY <1>1, <1>2, SameKeys
<1>4. PICK entry : entry = [key |-> KeyOf(vault), salt |-> vault.file.salt]
  OBVIOUS
<1>5. EntryIsTrue(entry)
  BY <1>4, KeyIsKnown, KeyFields DEF EntryIsTrue, KeyOf
<1>6. recoveryKeys' = recoveryKeys \cup {entry}
  BY <1>4 DEF EncryptRecoveryKey
<1>7. \A e \in recoveryKeys' : EntryIsTrue(e)'
  BY <1>3, <1>5, <1>6 DEF KeysIInv, EntryIsTrue
<1>8. \A backup \in backups' : BackupIsSealed(backup)'
  BY <1>1, <1>3 DEF KeysIInv, BackupIsSealed
<1>9. \A kit \in kits' : KitHolds(kit)'
  BY <1>1, <1>3 DEF KeysIInv, KitHolds
<1> QED BY <1>2, <1>3, <1>7, <1>8, <1>9 DEF KeysIInv, VaultIsSealed, CallIsTrue

(* A backup is sealed with the key of its vault, and holds its items.        *)
LEMMA EncryptBackupInv ==
  ASSUME KeysIInv, NEW vault \in vaults, EncryptBackup(vault)
  PROVE  KeysIInv'
<1>1. UNCHANGED <<vaults, resets>> /\ recoveryKeys' = recoveryKeys /\ kits' = kits
  BY DEF EncryptBackup
<1>2. seals' \in Nat /\ seals' >= seals
  BY DEF EncryptBackup, Draw, KeysIInv
<1>3. /\ KeySet' = KeySet /\ OneKeyPerSalt'
      /\ \A v \in vaults' : VaultIsSealed(v)
      /\ \A call \in resets' : CallIsTrue(call)
  BY <1>1, <1>2, SameKeys
<1>4. PICK plain, backup :
        /\ plain \in Decrypt(vault.file, KeyOf(vault))
        /\ backup = [sealed |-> Encrypt(plain, KeyOf(vault), seals + 1),
                     salt |-> vault.file.salt, items |-> vault.items]
        /\ backups' = backups \cup {backup}
  BY DEF EncryptBackup
<1>5. plain = vault.items
  BY <1>4, VaultOpens DEF KeysIInv
<1>6. KeyOf(vault).salt = vault.file.salt
  BY KeyFields DEF KeyOf
<1>7. BackupIsSealed(backup)
  BY <1>4, <1>5, <1>6, KeyIsKnown DEF BackupIsSealed
<1>8. \A b \in backups' : BackupIsSealed(b)'
  BY <1>3, <1>4, <1>7 DEF KeysIInv, BackupIsSealed
<1>9. \A e \in recoveryKeys' : EntryIsTrue(e)'
  BY <1>1, <1>3 DEF KeysIInv, EntryIsTrue
<1>10. \A kit \in kits' : KitHolds(kit)'
  BY <1>1, <1>3 DEF KeysIInv, KitHolds
<1> QED BY <1>2, <1>3, <1>8, <1>9, <1>10 DEF KeysIInv, VaultIsSealed, CallIsTrue

(* A kit holds the key of its vault.                                         *)
LEMMA WrapVaultKeyInv ==
  ASSUME KeysIInv, NEW vault \in vaults, NEW passphrase, WrapVaultKey(vault, passphrase)
  PROVE  KeysIInv'
<1>1. UNCHANGED <<vaults, resets>> /\ recoveryKeys' = recoveryKeys /\ backups' = backups
  BY DEF WrapVaultKey
<1>2. seals' \in Nat /\ seals' >= seals
  BY DEF WrapVaultKey, Draw, KeysIInv
<1>3. /\ KeySet' = KeySet /\ OneKeyPerSalt'
      /\ \A v \in vaults' : VaultIsSealed(v)
      /\ \A call \in resets' : CallIsTrue(call)
  BY <1>1, <1>2, SameKeys
<1>4. PICK kit, key, salt, iv :
        /\ key = KeyOf(vault) /\ salt = seals + 1 /\ iv = seals + 2
        /\ kit = [passphrase |-> passphrase, salt |-> vault.file.salt,
                  data |-> WithSalt(salt, Encrypt(key, DeriveKey(passphrase, salt), iv))]
        /\ kits' = kits \cup {kit}
  BY DEF WrapVaultKey
<1>5. kit.data.salt = salt
  BY <1>4 DEF WithSalt
<1>6. key.salt = kit.salt
  BY <1>4, KeyFields DEF KeyOf
<1>7. KitHolds(kit)
  BY <1>4, <1>5, <1>6, KeyIsKnown DEF KitHolds
<1>8. \A k \in kits' : KitHolds(k)'
  BY <1>3, <1>4, <1>7 DEF KeysIInv, KitHolds
<1>9. \A e \in recoveryKeys' : EntryIsTrue(e)'
  BY <1>1, <1>3 DEF KeysIInv, EntryIsTrue
<1>10. \A b \in backups' : BackupIsSealed(b)'
  BY <1>1, <1>3 DEF KeysIInv, BackupIsSealed
<1> QED BY <1>2, <1>3, <1>8, <1>9, <1>10 DEF KeysIInv, VaultIsSealed, CallIsTrue
-----------------------------------------------------------------------------
(* A step of a call that derives no key: what is added to the calls is true, *)
(* and no call that has a key goes.                                          *)
LEMMA CallsChange ==
  ASSUME KeysIInv, UNCHANGED <<vaults, recoveryKeys, backups, kits, seals>>,
         ResetKeys' = ResetKeys, \A call \in resets' : CallIsTrue(call)
  PROVE  KeysIInv'
<1>1. KeySet' = KeySet
  BY DEF KeySet
<1>2. OneKeyPerSalt'
  BY <1>1 DEF KeysIInv, OneKeyPerSalt
<1>3. \A e \in recoveryKeys' : EntryIsTrue(e)'
  BY <1>1 DEF KeysIInv, EntryIsTrue
<1>4. \A b \in backups' : BackupIsSealed(b)'
  BY <1>1 DEF KeysIInv, BackupIsSealed
<1>5. \A kit \in kits' : KitHolds(kit)'
  BY <1>1 DEF KeysIInv, KitHolds
<1> QED BY <1>2, <1>3, <1>4, <1>5 DEF KeysIInv, VaultIsSealed, CallIsTrue

(* A call of reEncryptVault begins with a vault of before.                   *)
LEMMA ReEncryptCalledInv ==
  ASSUME KeysIInv, NEW vault \in vaults, NEW key, NEW password,
         ReEncryptCalled(vault, key, password)
  PROVE  KeysIInv'
<1>1. PICK call : call = Call(vault, key, password, "decrypt", "nothing", 0)
                  /\ resets' = resets \cup {call}
  BY DEF ReEncryptCalled
<1>2. call.vault = vault /\ call.at = "decrypt"
  BY <1>1 DEF Call
<1>3. \A c \in resets' : CallIsTrue(c)
  BY <1>1, <1>2 DEF KeysIInv, CallIsTrue
<1>4. ResetKeys' = ResetKeys
  BY <1>1, <1>2 DEF ResetKeys
<1> QED BY <1>3, <1>4, CallsChange DEF ReEncryptCalled

(* It decrypts the items of its vault, or fails.                             *)
LEMMA ReEncryptDecryptsInv ==
  ASSUME KeysIInv, NEW call \in resets, ReEncryptDecrypts(call)
  PROVE  KeysIInv'
<1>1. VaultIsSealed(call.vault) /\ call.at = "decrypt"
  BY DEF KeysIInv, CallIsTrue, ReEncryptDecrypts
<1>2. ASSUME NEW c \in resets', c \notin resets \ {call}
      PROVE  c.vault = call.vault /\ c.at = "derive" /\ c.plain = call.vault.items
  <2>1. PICK plain \in Decrypt(call.vault.file, call.key) :
          c = Call(call.vault, call.key, call.password, "derive", plain, 0)
    BY <1>2 DEF ReEncryptDecrypts
  <2>2. plain = call.vault.items
    BY <1>1, <2>1, VaultOpens
  <2> QED BY <2>1, <2>2 DEF Call
<1>3. \A c \in resets' : CallIsTrue(c)
  BY <1>1, <1>2 DEF KeysIInv, CallIsTrue
<1>4. \A c : c \in resets' /\ c.at = "encrypt" <=> c \in resets /\ c.at = "encrypt"
  BY <1>1, <1>2 DEF ReEncryptDecrypts
<1>5. ResetKeys' = ResetKeys
  BY <1>4 DEF ResetKeys
<1> QED BY <1>3, <1>5, CallsChange DEF ReEncryptDecrypts

(* It draws the salt of a key that is new to everybody.                      *)
LEMMA ReEncryptDerivesInv ==
  ASSUME KeysIInv, NEW call \in resets, ReEncryptDerives(call)
  PROVE  KeysIInv'
<1>1. PICK next :
        /\ next = Call(call.vault, call.key, call.password, "encrypt", call.plain, seals + 1)
        /\ resets' = (resets \ {call}) \cup {next}
  BY DEF ReEncryptDerives
<1>2. /\ next.vault = call.vault /\ next.at = "encrypt" /\ next.plain = call.plain
      /\ next.password = call.password /\ next.salt = seals + 1
  BY <1>1 DEF Call
<1>3. call.at = "derive" /\ CallIsTrue(call)
  BY DEF KeysIInv, ReEncryptDerives
<1>4. \A c \in resets' : CallIsTrue(c)
  BY <1>1, <1>2, <1>3 DEF KeysIInv, CallIsTrue
<1>5. PICK new : new = DeriveKey(call.password, seals + 1)
  OBVIOUS
<1>6. ResetKeys' = ResetKeys \cup {new}
  BY <1>1, <1>2, <1>3, <1>5 DEF ResetKeys
<1>7. vaults' = vaults /\ UNCHANGED <<recoveryKeys, backups, kits>>
  BY DEF ReEncryptDerives
<1>8. KeySet' = KeySet \cup {new}
  BY <1>6, <1>7 DEF KeySet
<1>9. new.salt = seals + 1
  BY <1>5, KeyFields
<1>10. seals' \in Nat /\ seals' >= seals /\ seals' >= seals + 1
  BY DEF ReEncryptDerives, Draw, KeysIInv
<1>11. /\ OneKeyPerSalt'
       /\ \A entry \in recoveryKeys : EntryIsTrue(entry)'
       /\ \A backup \in backups : BackupIsSealed(backup)'
       /\ \A kit \in kits : KitHolds(kit)'
  BY <1>8, <1>9, <1>10, KeysGrow
<1> QED BY <1>4, <1>7, <1>10, <1>11 DEF KeysIInv, VaultIsSealed, CallIsTrue

(* What it returns is a vault with the key it has derived.                   *)
LEMMA ReEncryptReturnsInv ==
  ASSUME KeysIInv, NEW call \in resets, ReEncryptReturns(call)
  PROVE  KeysIInv'
<1>1. call.at = "encrypt" /\ call.plain = call.vault.items
  BY DEF KeysIInv, CallIsTrue, ReEncryptReturns
<1>2. PICK vault : vault = Vault(ReEncryptVault(call, seals + 1), call.password,
                                 call.vault.items)
                   /\ vaults' = vaults \cup {vault}
  BY DEF ReEncryptReturns
<1>3. ReEncryptVault(call, seals + 1)
        = WithSalt(call.salt, Encrypt(call.vault.items,
                                      DeriveKey(call.password, call.salt), seals + 1))
  BY <1>1 DEF ReEncryptVault
<1>4. VaultIsSealed(vault) /\ KeyOf(vault) = DeriveKey(call.password, call.salt)
  BY <1>2, <1>3, SealedIsVault
<1>5. KeyOf(vault) \in ResetKeys
  BY <1>1, <1>4 DEF ResetKeys
<1>6. resets' = resets \ {call}
  BY DEF ReEncryptReturns
<1>7. ResetKeys' \subseteq ResetKeys /\ ResetKeys \subseteq ResetKeys' \cup {KeyOf(vault)}
  BY <1>4, <1>6 DEF ResetKeys
<1>8. KeySet' = KeySet \cup {KeyOf(vault)}
  BY <1>2, <1>5, <1>7 DEF KeySet
<1>9. KeyOf(vault) \in KeySet
  BY <1>5 DEF KeySet
<1>10. seals' \in Nat /\ seals' >= seals
  BY DEF ReEncryptReturns, Draw, KeysIInv
<1>11. resets' \subseteq resets /\ UNCHANGED <<recoveryKeys, backups, kits>>
  BY <1>6 DEF ReEncryptReturns
<1> QED BY <1>2, <1>4, <1>8, <1>9, <1>10, <1>11, VaultAdded

(* Every step keeps the boxes as they are remembered.                        *)
LEMMA KeysNextInv == KeysIInv /\ [KeysNext]_keysVars => KeysIInv'
<1> SUFFICES ASSUME KeysIInv, [KeysNext]_keysVars PROVE KeysIInv'
  OBVIOUS
<1>1. CASE \E password \in KeyPasswords, items \in NewContents :
             CreateVault(password, items)
  BY <1>1, CreateVaultInv
<1>2. CASE \E vault \in vaults : \E items \in VaultContents \ {vault.items} : SaveVault(vault, items)
  BY <1>2, SaveVaultInv
<1>3. CASE \E vault \in vaults : EncryptRecoveryKey(vault) \/ EncryptBackup(vault)
  BY <1>3, EncryptRecoveryKeyInv, EncryptBackupInv
<1>4. CASE \E vault \in vaults, passphrase \in KeyPasswords : WrapVaultKey(vault, passphrase)
  BY <1>4, WrapVaultKeyInv
<1>5. CASE \E vault \in vaults, kit \in kits, backup \in backups :
             RestoreBackup(vault, kit, backup)
  BY <1>5, RestoreBackupInv
<1>6. CASE \E vault \in vaults, key \in KeysAtHand, password \in KeyPasswords :
             ReEncryptCalled(vault, key, password)
  BY <1>6, ReEncryptCalledInv
<1>7. CASE \E call \in resets :
             ReEncryptDecrypts(call) \/ ReEncryptDerives(call) \/ ReEncryptReturns(call)
  BY <1>7, ReEncryptDecryptsInv, ReEncryptDerivesInv, ReEncryptReturnsInv
<1>8. CASE UNCHANGED keysVars
  <2>1. UNCHANGED <<vaults, recoveryKeys, backups, kits, resets, seals>>
    BY <1>8 DEF keysVars
  <2>2. ResetKeys' = ResetKeys
    BY <2>1 DEF ResetKeys
  <2>3. \A call \in resets' : CallIsTrue(call)
    BY <2>1 DEF KeysIInv
  <2> QED BY <2>1, <2>2, <2>3, CallsChange
<1> QED BY <1>1, <1>2, <1>3, <1>4, <1>5, <1>6, <1>7, <1>8 DEF KeysNext
-----------------------------------------------------------------------------
(* A file or a backup is sealed with the one key that has its salt.          *)
LEMMA BoxesAreSealed ==
  ASSUME KeysIInv, NEW box \in Boxes, NEW key \in KeySet
  PROVE  Decrypt(box.sealed, key) = IF key.salt = box.salt THEN {box.items} ELSE {}
<1>1. \A k \in KeySet : k.salt = key.salt <=> k = key
  BY DEF KeysIInv, OneKeyPerSalt
<1>2. CASE box \in backups
  <2>0. PICK k \in KeySet : \E iv : box.sealed = Encrypt(box.items, k, iv) /\ k.salt = box.salt
    BY <1>2 DEF KeysIInv, BackupIsSealed
  <2>1. PICK iv : box.sealed = Encrypt(box.items, k, iv) /\ k.salt = box.salt
    BY <2>0
  <2>2. Decrypt(box.sealed, key) = IF key = k THEN {box.items} ELSE {}
    BY <2>1, DecryptOpens
  <2> QED BY <1>1, <2>1, <2>2
<1>3. CASE box \notin backups
  <2>1. PICK vault \in vaults : /\ box.sealed = vault.file /\ box.salt = vault.file.salt
                                /\ box.items = vault.items
    BY <1>3 DEF Boxes
  <2>2. KeyOf(vault) \in KeySet /\ KeyOf(vault).salt = box.salt
    BY <2>1, KeyIsKnown, KeyFields DEF KeyOf
  <2>3. Decrypt(box.sealed, key) = IF key = KeyOf(vault) THEN {box.items} ELSE {}
    BY <2>1, VaultOpens DEF KeysIInv
  <2> QED BY <1>1, <2>2, <2>3
<1> QED BY <1>2, <1>3

(* LocksKeepTheirKeys: EveryLockHasItsKey for any passwords, items and       *)
(* number of saves, resets, kits and restores, with any number of resets     *)
(* under way at once: of everything stored in any combination, a file beside *)
(* a salt opens to its own items or not at all, and entries and kits open    *)
(* what was sealed between two resets (recovery.ts 247-285, backup-format.ts *)
(* 62-118, emergency-kit.ts 82-132).                                         *)
THEOREM LocksKeepTheirKeys == KeysSpec => []EveryLockHasItsKey
<1>1. KeysSpec => []KeysIInv
  BY KeysInitInv, KeysNextInv, PTL DEF KeysSpec
<1>2. KeysIInv => EveryLockHasItsKey
  <2> SUFFICES ASSUME KeysIInv PROVE EveryLockHasItsKey
    OBVIOUS
  <2>1. ASSUME NEW vault \in vaults, NEW other \in vaults, NEW password
        PROVE  Decrypt(vault.file, DeriveKey(password, other.file.salt)) =
                 IF password = vault.password /\ other.file.salt = vault.file.salt
                 THEN {vault.items} ELSE {}
    <3>1. DeriveKey(password, other.file.salt) = KeyOf(vault)
            <=> password = vault.password /\ other.file.salt = vault.file.salt
      BY KeyFields DEF KeyOf
    <3>2. VaultIsSealed(vault)
      BY DEF KeysIInv
    <3> QED BY <3>1, <3>2, VaultOpens
  <2>2. ASSUME NEW entry \in recoveryKeys, NEW box \in Boxes
        PROVE  Decrypt(box.sealed, entry.key)
                 = IF entry.salt = box.salt THEN {box.items} ELSE {}
    BY BoxesAreSealed DEF KeysIInv, EntryIsTrue
  <2>3. ASSUME NEW kit \in kits, NEW passphrase, NEW box \in Boxes
        PROVE  UNION {Decrypt(box.sealed, key) : key \in UnwrapVaultKey(kit.data, passphrase)}
                 = IF passphrase = kit.passphrase /\ kit.salt = box.salt
                   THEN {box.items} ELSE {}
    <3>1. PICK k \in KeySet :
            /\ k.salt = kit.salt
            /\ UnwrapVaultKey(kit.data, passphrase)
                 = IF passphrase = kit.passphrase THEN {k} ELSE {}
      BY KitGives DEF KeysIInv
    <3>2. Decrypt(box.sealed, k) = IF k.salt = box.salt THEN {box.items} ELSE {}
      BY BoxesAreSealed
    <3> QED BY <3>1, <3>2
  <2> QED BY <2>1, <2>2, <2>3 DEF EveryLockHasItsKey
<1> QED BY <1>1, <1>2, PTL
=============================================================================
