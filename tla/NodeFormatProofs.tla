-------------------------- MODULE NodeFormatProofs --------------------------
(***************************************************************************)
(* Theorems about formatting, for any number of volumes and handlers and   *)
(* whichever mkfs hang: mkfs runs one at a time until it runs too long,    *)
(* and a handler formats its own disk, still blank, however long it waited *)
(* for the place, as long as its volume is not unstaged meanwhile.         *)
(*                                                                         *)
(* The argument: the lock of the volume keeps its other stage handlers     *)
(* away from the moment the handler looked on, and without an unstaging    *)
(* nobody else ends the session, so the name the handler has stays that of *)
(* its volume (Sure); names are given to one volume at a time.             *)
(***************************************************************************)
EXTENDS NodeFormat, TLAPS

LockedPCs == StagePCs \ {"lock"}
DevicePCs == {"blank?", "wait", "mkfs", "mount"}

\* A handler has a volume, past its first step holds its lock, and its mkfs has
\* opened some disk.
LockHeld == \A s \in Slots :
               /\ call[s].pc \in StagePCs => V(s) \in Volumes
               /\ call[s].pc \in LockedPCs => lock[V(s)] = s
               /\ call[s].pc = "mkfs" => call[s].disk \in Volumes

\* A handler whose mkfs has not run for too long has the place.
HasPlace == \A s \in Slots : At(s, "mkfs") /\ ~call[s].late => place = s

\* No two volumes have the same device.
NamesApart == \A v, w \in Volumes : name[v] # Nobody /\ name[v] = name[w] => v = w

\* The inductive invariant, whatever overlaps.
FInv == TypeOK /\ LockHeld /\ HasPlace /\ NamesApart

\* No volume is mounted in another's place.
HoldsOwn == \A v \in Volumes : mounted[v] \in {Nobody, v}

\* What a handler saw is still so: the name is its volume's, which is not
\* mounted, and blank if it is to be formatted.
Sure(s) ==
    /\ call[s].pc \in DevicePCs =>
          /\ call[s].dev # Nobody /\ name[V(s)] = call[s].dev
          /\ mounted[V(s)] = Nobody
    /\ call[s].pc \in {"wait", "mkfs"} => V(s) \notin formatted
    /\ call[s].pc = "mkfs" => call[s].disk = V(s)

\* The inductive invariant when a volume is not unstaged while a stage call on
\* it is still running.
SInv == FInv /\ HoldsOwn /\ \A s \in Slots : Sure(s)

-----------------------------------------------------------------------------
(* What steps change.                                                      *)

\* A handler gets a new record; the others keep theirs.
LEMMA NewRecord ==
    ASSUME TypeOK, NEW s \in Slots, NEW r \in CallRecord,
           call' = [call EXCEPT ![s] = r]
    PROVE  /\ call' \in [Slots -> CallRecord]
           /\ call'[s] = r
           /\ \A t \in Slots : t # s => call'[t] = call[t] /\ V(t)' = V(t)
  BY DEF TypeOK, V

\* What a handler that returns leaves: an idle slot, and its volume's lock free.
LEMMA Returned ==
    ASSUME TypeOK, NEW s \in Slots, V(s) \in Volumes, Return(s)
    PROVE  /\ call' \in [Slots -> CallRecord]
           /\ lock' \in [Volumes -> Slots \cup {Nobody}]
           /\ awaits' \in [Volumes -> Slots \cup {Nobody}]
           /\ call'[s].pc = "idle"
           /\ \A t \in Slots : t # s => call'[t] = call[t] /\ V(t)' = V(t)
           /\ \A v \in Volumes : v # V(s) => lock'[v] = lock[v]
  <1>1. Idle \in CallRecord /\ Idle.pc = "idle"
    BY DEF Idle, CallRecord
  <1>2. call' = [call EXCEPT ![s] = Idle]
    BY DEF Return
  <1>3. /\ call' \in [Slots -> CallRecord]
        /\ call'[s] = Idle
        /\ \A t \in Slots : t # s => call'[t] = call[t] /\ V(t)' = V(t)
    BY <1>1, <1>2, NewRecord
  <1> QED
    BY <1>1, <1>3 DEF Return, TypeOK

\* A handler that goes on with its lock keeps the first invariant.
LEMMA GoesOn ==
    ASSUME FInv, TypeOK', NamesApart', NEW s \in Slots, NEW r \in CallRecord,
           call' = [call EXCEPT ![s] = r], UNCHANGED lock,
           call[s].pc \in LockedPCs, r.pc \in LockedPCs, r.vol = V(s),
           \A t \in Slots : t # s /\ place = t => place' = t,
           r.pc = "mkfs" => r.disk \in Volumes /\ (~r.late => place' = s)
    PROVE  FInv'
  <1>1. /\ call'[s] = r
        /\ \A t \in Slots : t # s => call'[t] = call[t] /\ V(t)' = V(t)
    BY NewRecord DEF FInv
  <1>2. V(s) \in Volumes /\ lock[V(s)] = s /\ V(s)' = V(s)
    BY <1>1 DEF FInv, LockHeld, LockedPCs, V
  <1>3. LockHeld'
    BY <1>1, <1>2 DEF FInv, LockHeld
  <1>4. HasPlace'
    BY <1>1 DEF FInv, HasPlace, At
  <1> QED
    BY <1>3, <1>4 DEF FInv

\* So does a handler that returns.
LEMMA ComesBack ==
    ASSUME FInv, NEW s \in Slots, Return(s), call[s].pc \in LockedPCs,
           name' \in [Volumes -> Devices \cup {Nobody}], NamesApart',
           formatted' \subseteq Volumes,
           mounted' \in [Volumes -> Volumes \cup {Nobody}],
           place' = place \/ (place = s /\ place' = Nobody)
    PROVE  FInv'
  <1>1. V(s) \in Volumes /\ lock[V(s)] = s
    BY DEF FInv, LockHeld, LockedPCs
  <1>2. /\ call' \in [Slots -> CallRecord]
        /\ lock' \in [Volumes -> Slots \cup {Nobody}]
        /\ awaits' \in [Volumes -> Slots \cup {Nobody}]
        /\ call'[s].pc = "idle"
        /\ \A t \in Slots : t # s => call'[t] = call[t] /\ V(t)' = V(t)
        /\ \A v \in Volumes : v # V(s) => lock'[v] = lock[v]
    BY <1>1, Returned DEF FInv
  <1>3. TypeOK'
    BY <1>2 DEF FInv, TypeOK
  <1>4. ASSUME NEW t \in Slots
        PROVE  /\ call'[t].pc \in StagePCs => V(t)' \in Volumes
               /\ call'[t].pc \in LockedPCs => lock'[V(t)'] = t
               /\ call'[t].pc = "mkfs" => call'[t].disk \in Volumes
    <2>1. CASE t = s
      BY <1>2, <2>1 DEF LockedPCs, StagePCs
    <2>2. CASE t # s
      <3>1. call'[t] = call[t] /\ V(t)' = V(t)
        BY <1>2, <2>2
      <3>2. call[t].pc \in LockedPCs =>
               V(t) \in Volumes /\ V(t) # V(s) /\ lock[V(t)] = t
        BY <1>1, <2>2 DEF FInv, LockHeld, LockedPCs
      <3> QED
        BY <1>2, <3>1, <3>2 DEF FInv, LockHeld
    <2> QED
      BY <2>1, <2>2
  <1>5. LockHeld'
    BY <1>4 DEF LockHeld
  <1>6. HasPlace'
    BY <1>2 DEF FInv, HasPlace, At
  <1> QED
    BY <1>3, <1>5, <1>6 DEF FInv

\* A step of a handler past its lock that changes no other volume leaves what
\* the other handlers saw.
LEMMA OthersSure ==
    ASSUME SInv, NEW s \in Slots, call[s].pc \in LockedPCs,
           \A t \in Slots : t # s => call'[t] = call[t],
           \A v \in Volumes : v # V(s) =>
              /\ name'[v] = name[v] /\ mounted'[v] = mounted[v]
              /\ v \in formatted' <=> v \in formatted
    PROVE  \A t \in Slots : t # s => Sure(t)'
  <1> SUFFICES ASSUME NEW t \in Slots, t # s PROVE Sure(t)'
    OBVIOUS
  <1>1. call'[t] = call[t] /\ V(t)' = V(t)
    BY DEF V
  <1>2. call[t].pc \in DevicePCs \/ call[t].pc \in {"wait", "mkfs"} =>
           V(t) \in Volumes /\ V(t) # V(s)
    BY DEF SInv, FInv, LockHeld, LockedPCs, StagePCs, DevicePCs
  <1>3. Sure(t)
    BY DEF SInv
  <1>4. /\ call[t].pc \in DevicePCs =>
              /\ call[t].dev # Nobody /\ name'[V(t)] = call[t].dev
              /\ mounted'[V(t)] = Nobody
        /\ call[t].pc \in {"wait", "mkfs"} => V(t) \notin formatted'
        /\ call[t].pc = "mkfs" => call[t].disk = V(t)
    BY <1>2, <1>3 DEF Sure
  <1> QED
    BY <1>1, <1>4 DEF Sure

\* A login gives a name no other volume has.
LEMMA NewName ==
    ASSUME FInv, NEW v \in Volumes, Login(v)
    PROVE  /\ name' \in [Volumes -> Devices \cup {Nobody}]
           /\ name'[v] \in Devices
           /\ \A w \in Volumes : w # v => name'[w] = name[w]
           /\ NamesApart'
  <1>1. CASE name[v] # Nobody /\ name' = name
    BY <1>1 DEF FInv, TypeOK, NamesApart
  <1>2. CASE name[v] = Nobody
    <2>1. PICK d \in Devices : Free(d) /\ name' = [name EXCEPT ![v] = d]
      BY <1>2 DEF Login
    <2> QED
      BY <2>1 DEF FInv, TypeOK, NamesApart, Free
  <1> QED
    BY <1>1, <1>2 DEF Login

-----------------------------------------------------------------------------
(* At first.                                                               *)

\* No handler runs, and nothing has a name.
LEMMA SInit == Init => SInv
  <1> SUFFICES ASSUME Init PROVE SInv
    OBVIOUS
  <1>1. Idle \in CallRecord /\ Idle.pc = "idle"
    BY DEF Idle, CallRecord
  <1>2. \A s \in Slots : call[s].pc = "idle"
    BY <1>1 DEF Init
  <1>3. TypeOK
    BY <1>1 DEF Init, TypeOK, Empty
  <1>4. NamesApart /\ HoldsOwn
    BY DEF Init, Empty, NamesApart, HoldsOwn
  <1>5. FInv
    BY <1>2, <1>3, <1>4 DEF FInv, LockHeld, HasPlace, At, LockedPCs, StagePCs
  <1>6. \A s \in Slots : Sure(s)
    BY <1>2 DEF Sure, DevicePCs
  <1> QED
    BY <1>4, <1>5, <1>6 DEF SInv

-----------------------------------------------------------------------------
(* The steps of a handler, one by one.  Each keeps the first invariant, and *)
(* the second as well.                                                     *)

\* The lock is free, so no other handler is past it.
LEMMA LockStep ==
    ASSUME FInv, NEW s \in Slots, Lock(s)
    PROVE  FInv' /\ (SInv => SInv')
  <1> DEFINE r == [call[s] EXCEPT !.pc = "mounted?"]
  <1>1. call[s] \in CallRecord /\ call' = [call EXCEPT ![s] = r]
    BY DEF Lock, Goto, FInv, TypeOK
  <1>2. r \in CallRecord /\ r.pc = "mounted?" /\ r.vol = V(s)
    BY <1>1 DEF CallRecord, StagePCs, V
  <1> HIDE DEF r
  <1>3. /\ call' \in [Slots -> CallRecord] /\ call'[s] = r
        /\ \A t \in Slots : t # s => call'[t] = call[t] /\ V(t)' = V(t)
    BY <1>1, <1>2, NewRecord DEF FInv
  <1>4. /\ V(s) \in Volumes /\ lock[V(s)] = Nobody /\ V(s)' = V(s)
        /\ Nobody \notin Slots
    BY <1>2, <1>3, FormatAssumption DEF Lock, At, FInv, LockHeld, StagePCs, V
  <1>5. TypeOK'
    BY <1>3, <1>4 DEF Lock, FInv, TypeOK
  <1>6. LockHeld'
    BY <1>2, <1>3, <1>4 DEF Lock, FInv, TypeOK, LockHeld, LockedPCs
  <1>7. HasPlace'
    BY <1>2, <1>3 DEF Lock, FInv, HasPlace, At
  <1>n. NamesApart'
    BY DEF Lock, FInv, NamesApart
  <1>8. ASSUME SInv PROVE HoldsOwn' /\ \A t \in Slots : Sure(t)'
    <2>1. HoldsOwn'
      BY <1>8 DEF Lock, SInv, HoldsOwn
    <2>2. ASSUME NEW t \in Slots PROVE Sure(t)'
      <3>1. CASE t = s
        BY <1>2, <1>3, <3>1 DEF Sure, DevicePCs
      <3>2. CASE t # s
        BY <1>3, <1>8, <3>2 DEF Lock, SInv, Sure
      <3> QED
        BY <3>1, <3>2
    <2> QED
      BY <2>1, <2>2
  <1> QED
    BY <1>5, <1>6, <1>7, <1>n, <1>8 DEF FInv, SInv

\* A handler that returns, having perhaps changed something of its volume.
LEMMA ReturnStep ==
    ASSUME FInv, NEW s \in Slots, Return(s), call[s].pc \in LockedPCs,
           name' \in [Volumes -> Devices \cup {Nobody}], NamesApart',
           formatted' = formatted,
           mounted' \in [Volumes -> Volumes \cup {Nobody}],
           place' = place \/ (place = s /\ place' = Nobody)
    PROVE  /\ FInv'
           /\ ( /\ SInv
                /\ mounted'[V(s)] \in {Nobody, V(s)}
                /\ \A v \in Volumes : v # V(s) =>
                      name'[v] = name[v] /\ mounted'[v] = mounted[v] ) =>
              SInv'
  <1>1. FInv'
    BY ComesBack DEF FInv, TypeOK
  <1>2. ASSUME SInv, mounted'[V(s)] \in {Nobody, V(s)},
               \A v \in Volumes : v # V(s) =>
                  name'[v] = name[v] /\ mounted'[v] = mounted[v]
        PROVE  SInv'
    <2>1. V(s) \in Volumes
      BY DEF FInv, LockHeld, LockedPCs
    <2>2. /\ call'[s].pc = "idle"
          /\ \A t \in Slots : t # s => call'[t] = call[t]
      BY <2>1, Returned DEF FInv
    <2>3. \A t \in Slots : t # s => Sure(t)'
      BY <1>2, <2>2, OthersSure
    <2>4. Sure(s)'
      BY <2>2 DEF Sure, DevicePCs
    <2>5. HoldsOwn'
      BY <1>2 DEF SInv, HoldsOwn
    <2> QED
      BY <1>1, <1>2, <2>3, <2>4, <2>5 DEF SInv
  <1> QED
    BY <1>1, <1>2

\* A handler that goes on with its lock, having perhaps changed something of
\* its volume.
LEMMA GoStep ==
    ASSUME FInv, TypeOK', NamesApart', NEW s \in Slots, NEW r \in CallRecord,
           call' = [call EXCEPT ![s] = r], UNCHANGED lock,
           call[s].pc \in LockedPCs, r.pc \in LockedPCs, r.vol = V(s),
           \A t \in Slots : t # s /\ place = t => place' = t,
           r.pc = "mkfs" => r.disk \in Volumes /\ (~r.late => place' = s),
           mounted' = mounted
    PROVE  /\ FInv'
           /\ ( /\ SInv
                /\ Sure(s)'
                /\ \A v \in Volumes : v # V(s) =>
                      /\ name'[v] = name[v]
                      /\ v \in formatted' <=> v \in formatted ) =>
              SInv'
  <1>1. FInv'
    BY GoesOn
  <1>2. ASSUME SInv, Sure(s)',
               \A v \in Volumes : v # V(s) =>
                  /\ name'[v] = name[v]
                  /\ v \in formatted' <=> v \in formatted
        PROVE  SInv'
    <2>1. \A t \in Slots : t # s => call'[t] = call[t]
      BY NewRecord DEF FInv
    <2>2. \A t \in Slots : t # s => Sure(t)'
      BY <1>2, <2>1, OthersSure
    <2>3. HoldsOwn'
      BY <1>2 DEF SInv, HoldsOwn
    <2> QED
      BY <1>1, <1>2, <2>2, <2>3 DEF SInv
  <1> QED
    BY <1>1, <1>2

\* The session is there, with a name of its own.
LEMMA CheckMountedStep ==
    ASSUME FInv, NEW s \in Slots, CheckMounted(s)
    PROVE  FInv' /\ (SInv => SInv')
  <1>1. /\ call[s].pc \in LockedPCs /\ V(s) \in Volumes
        /\ formatted' = formatted /\ mounted' = mounted /\ place' = place
    BY DEF CheckMounted, At, LockedPCs, StagePCs, FInv, LockHeld
  <1>2. /\ name' \in [Volumes -> Devices \cup {Nobody}]
        /\ \A w \in Volumes : w # V(s) => name'[w] = name[w]
        /\ NamesApart'
    <2>1. CASE name' = name
      BY <2>1 DEF FInv, TypeOK, NamesApart
    <2> QED
      BY <1>1, <2>1, NewName DEF CheckMounted
  <1>3. CASE Return(s)
    <2>1. mounted \in [Volumes -> Volumes \cup {Nobody}]
      BY DEF FInv, TypeOK
    <2>2. SInv => mounted[V(s)] \in {Nobody, V(s)}
      BY <1>1 DEF SInv, HoldsOwn
    <2> QED
      BY <1>1, <1>2, <1>3, <2>1, <2>2, ReturnStep
  <1>4. CASE /\ mounted[V(s)] = Nobody
             /\ Login(V(s))
             /\ call' = [call EXCEPT ![s].pc = "blank?", ![s].dev = name'[V(s)]]
             /\ UNCHANGED <<lock, awaits>>
    <2>1. PICK d \in Devices : d = name'[V(s)]
      BY <1>1, <1>4, NewName
    <2> DEFINE r == [call[s] EXCEPT !.pc = "blank?", !.dev = d]
    <2>2. call[s] \in CallRecord /\ call' = [call EXCEPT ![s] = r]
      BY <1>4, <2>1 DEF FInv, TypeOK
    <2>3. /\ r \in CallRecord /\ r.pc = "blank?" /\ r.vol = V(s) /\ r.dev = d
      BY <2>2 DEF CallRecord, StagePCs, V
    <2> HIDE DEF r
    <2>4. TypeOK'
      BY <1>1, <1>2, <1>4, <2>2, <2>3, NewRecord DEF FInv, TypeOK
    <2>5. Sure(s)'
      <3>1. call'[s] = r /\ V(s)' = V(s)
        BY <2>2, <2>3, NewRecord DEF FInv, V
      <3>2. d # Nobody
        BY FormatAssumption
      <3> QED
        BY <1>1, <1>4, <2>1, <2>3, <3>1, <3>2 DEF Sure
    <2>6. r.pc \in LockedPCs /\ r.pc # "mkfs"
      BY <2>3 DEF LockedPCs, StagePCs
    <2> QED
      BY <1>1, <1>2, <1>4, <2>2, <2>3, <2>4, <2>5, <2>6, GoStep
  <1> QED
    BY <1>3, <1>4 DEF CheckMounted

\* The name is looked up: it is that of the handler's volume.
LEMMA CheckBlankStep ==
    ASSUME FInv, NEW s \in Slots, CheckBlank(s)
    PROVE  FInv' /\ (SInv => SInv')
  <1>1. /\ call[s].pc = "blank?" /\ call[s].pc \in LockedPCs /\ V(s) \in Volumes
    BY DEF CheckBlank, At, LockedPCs, StagePCs, FInv, LockHeld
  <1>2. PICK pc \in {"mount", "wait"} :
           /\ call' = [call EXCEPT ![s].pc = pc]
           /\ pc = "wait" => ~ \E w \in formatted : Named(call[s].dev, w)
    BY DEF CheckBlank, Goto
  <1> DEFINE r == [call[s] EXCEPT !.pc = pc]
  <1>3. call[s] \in CallRecord /\ call' = [call EXCEPT ![s] = r]
    BY <1>2 DEF FInv, TypeOK
  <1>4. /\ r \in CallRecord /\ r.pc = pc /\ r.vol = V(s) /\ r.dev = call[s].dev
    BY <1>3 DEF CallRecord, StagePCs, V
  <1> HIDE DEF r
  <1>5. TypeOK'
    BY <1>3, <1>4, NewRecord DEF CheckBlank, FInv, TypeOK
  <1>6. NamesApart'
    BY DEF CheckBlank, FInv, NamesApart
  <1>7. SInv => Sure(s)'
    <2>1. call'[s] = r /\ V(s)' = V(s)
      BY <1>3, <1>4, NewRecord DEF FInv, V
    <2> QED
      BY <1>1, <1>2, <1>4, <2>1 DEF CheckBlank, SInv, Sure, DevicePCs, Named
  <1>8. r.pc \in LockedPCs /\ r.pc # "mkfs"
    BY <1>4 DEF LockedPCs, StagePCs
  <1> QED
    BY <1>1, <1>3, <1>4, <1>5, <1>6, <1>7, <1>8, GoStep DEF CheckBlank

\* The place is free, and what is opened is the volume.
LEMMA AcquireStep ==
    ASSUME FInv, NEW s \in Slots, Acquire(s)
    PROVE  FInv' /\ (SInv => SInv')
  <1>1. /\ call[s].pc = "wait" /\ call[s].pc \in LockedPCs /\ V(s) \in Volumes
        /\ name' = name /\ formatted' = formatted /\ mounted' = mounted
    BY DEF Acquire, At, LockedPCs, StagePCs, FInv, LockHeld
  <1>2. /\ name \in [Volumes -> Devices \cup {Nobody}] /\ NamesApart'
        /\ mounted \in [Volumes -> Volumes \cup {Nobody}]
    BY <1>1 DEF FInv, TypeOK, NamesApart
  <1>3. CASE Return(s) /\ place' = place
    <2>1. SInv => mounted[V(s)] \in {Nobody, V(s)}
      BY <1>1 DEF SInv, HoldsOwn
    <2> QED
      BY <1>1, <1>2, <1>3, <2>1, ReturnStep
  <1>4. CASE /\ \E w \in Volumes :
                   /\ Named(call[s].dev, w)
                   /\ ~Mounted(w)
                   /\ call' = [call EXCEPT ![s].pc = "mkfs", ![s].disk = w]
             /\ place' = s
             /\ UNCHANGED <<lock, awaits>>
    <2>1. PICK w \in Volumes :
             /\ Named(call[s].dev, w)
             /\ call' = [call EXCEPT ![s].pc = "mkfs", ![s].disk = w]
      BY <1>4
    <2> DEFINE r == [call[s] EXCEPT !.pc = "mkfs", !.disk = w]
    <2>2. call[s] \in CallRecord /\ call' = [call EXCEPT ![s] = r]
      BY <2>1 DEF FInv, TypeOK
    <2>3. /\ r \in CallRecord /\ r.pc = "mkfs" /\ r.vol = V(s)
          /\ r.dev = call[s].dev /\ r.disk = w
      BY <2>2 DEF CallRecord, StagePCs, V
    <2> HIDE DEF r
    <2>4. TypeOK'
      BY <1>1, <1>4, <2>2, <2>3, NewRecord DEF FInv, TypeOK
    <2>5. SInv => Sure(s)'
      <3>1. call'[s] = r /\ V(s)' = V(s)
        BY <2>2, <2>3, NewRecord DEF FInv, V
      <3>2. ASSUME SInv PROVE w = V(s)
        BY <1>1, <2>1, <3>2 DEF SInv, FInv, NamesApart, Sure, DevicePCs, Named
      <3> QED
        BY <1>1, <2>3, <3>1, <3>2 DEF SInv, Sure, DevicePCs
    <2>6. /\ r.pc \in LockedPCs
          /\ \A t \in Slots : t # s /\ place = t => place' = t
      BY <2>3, FormatAssumption DEF LockedPCs, StagePCs, Acquire
    <2> QED
      BY <1>1, <1>2, <1>4, <2>2, <2>3, <2>4, <2>5, <2>6, GoStep
  <1> QED
    BY <1>3, <1>4 DEF Acquire

\* The five minutes are over.
LEMMA LosePlaceStep ==
    ASSUME FInv, NEW s \in Slots, LosePlace(s)
    PROVE  FInv' /\ (SInv => SInv')
  <1>1. /\ call[s].pc = "mkfs" /\ call[s].pc \in LockedPCs /\ V(s) \in Volumes
        /\ place = s /\ call[s].disk \in Volumes
    BY DEF LosePlace, At, LockedPCs, StagePCs, FInv, LockHeld, HasPlace
  <1> DEFINE r == [call[s] EXCEPT !.late = TRUE]
  <1>2. call[s] \in CallRecord /\ call' = [call EXCEPT ![s] = r]
    BY DEF LosePlace, FInv, TypeOK
  <1>3. /\ r \in CallRecord /\ r.pc = "mkfs" /\ r.vol = V(s) /\ r.late = TRUE
        /\ r.dev = call[s].dev /\ r.disk = call[s].disk
    BY <1>1, <1>2 DEF CallRecord, V
  <1> HIDE DEF r
  <1>4. TypeOK'
    BY <1>2, <1>3, NewRecord DEF LosePlace, FInv, TypeOK
  <1>5. NamesApart'
    BY DEF LosePlace, FInv, NamesApart
  <1>6. SInv => Sure(s)'
    <2>1. call'[s] = r /\ V(s)' = V(s)
      BY <1>2, <1>3, NewRecord DEF FInv, V
    <2> QED
      BY <1>1, <1>3, <2>1 DEF LosePlace, SInv, Sure
  <1> QED
    BY <1>1, <1>2, <1>3, <1>4, <1>5, <1>6, GoStep DEF LosePlace

\* mkfs that succeeds: the disk is no longer blank, and the handler that
\* formatted it is the only one at work on it.
LEMMA MkfsStep ==
    ASSUME FInv, NEW s \in Slots, Mkfs(s)
    PROVE  FInv' /\ (SInv => SInv')
  <1>1. /\ call[s].pc = "mkfs" /\ call[s].pc \in LockedPCs /\ V(s) \in Volumes
        /\ name' = name /\ mounted' = mounted
        /\ place' = place \/ (place = s /\ place' = Nobody)
    BY DEF Mkfs, At, LockedPCs, StagePCs, FInv, LockHeld
  <1>2. /\ name \in [Volumes -> Devices \cup {Nobody}] /\ NamesApart'
        /\ mounted \in [Volumes -> Volumes \cup {Nobody}]
    BY <1>1 DEF FInv, TypeOK, NamesApart
  <1>3. CASE Return(s) /\ formatted' = formatted
    <2>1. SInv => mounted[V(s)] \in {Nobody, V(s)}
      BY <1>1 DEF SInv, HoldsOwn
    <2> QED
      BY <1>1, <1>2, <1>3, <2>1, ReturnStep
  <1>4. CASE /\ Named(call[s].dev, call[s].disk)
             /\ formatted' = formatted \cup {call[s].disk}
             /\ call' = [call EXCEPT ![s].pc = "mount", ![s].disk = Nobody]
             /\ UNCHANGED <<lock, awaits>>
    <2> DEFINE r == [call[s] EXCEPT !.pc = "mount", !.disk = Nobody]
    <2>1. call[s] \in CallRecord /\ call' = [call EXCEPT ![s] = r]
      BY <1>4 DEF FInv, TypeOK
    <2>2. /\ r \in CallRecord /\ r.pc = "mount" /\ r.vol = V(s)
          /\ r.dev = call[s].dev
      BY <2>1 DEF CallRecord, StagePCs, V
    <2> HIDE DEF r
    <2>3. TypeOK'
      <3>1. call' \in [Slots -> CallRecord]
        BY <2>1, <2>2, NewRecord DEF FInv
      <3>2. place' \in Slots \cup {Nobody}
        BY <1>1 DEF FInv, TypeOK
      <3>3. call[s].disk \in Volumes
        BY <1>1 DEF FInv, LockHeld
      <3> QED
        BY <1>1, <1>4, <3>1, <3>2, <3>3 DEF FInv, TypeOK, Mkfs
    <2>4. /\ r.pc \in LockedPCs /\ r.pc # "mkfs"
          /\ \A t \in Slots : t # s /\ place = t => place' = t
      BY <1>1, <2>2 DEF LockedPCs, StagePCs
    <2>5. SInv => Sure(s)'
      <3>1. call'[s] = r /\ V(s)' = V(s)
        BY <2>1, <2>2, NewRecord DEF FInv, V
      <3> QED
        BY <1>1, <2>2, <3>1 DEF SInv, Sure, DevicePCs
    <2>6. SInv => call[s].disk = V(s)
      BY <1>1 DEF SInv, Sure
    <2> QED
      BY <1>1, <1>2, <1>4, <2>1, <2>2, <2>3, <2>4, <2>5, <2>6, GoStep
  <1> QED
    BY <1>3, <1>4 DEF Mkfs

\* What is mounted is the volume itself.
LEMMA MountStep ==
    ASSUME FInv, NEW s \in Slots, Mount(s)
    PROVE  FInv' /\ (SInv => SInv')
  <1>1. /\ call[s].pc = "mount" /\ call[s].pc \in LockedPCs /\ V(s) \in Volumes
        /\ name' = name /\ formatted' = formatted /\ place' = place
    BY DEF Mount, At, LockedPCs, StagePCs, FInv, LockHeld
  <1>2. name \in [Volumes -> Devices \cup {Nobody}] /\ NamesApart'
    BY <1>1 DEF FInv, TypeOK, NamesApart
  <1>3. /\ mounted' \in [Volumes -> Volumes \cup {Nobody}]
        /\ \A v \in Volumes : v # V(s) => mounted'[v] = mounted[v]
        /\ SInv => mounted'[V(s)] \in {Nobody, V(s)}
    <2>1. CASE mounted' = mounted
      BY <1>1, <2>1 DEF FInv, TypeOK, SInv, HoldsOwn
    <2>2. CASE \E w \in formatted :
                  /\ Named(call[s].dev, w)
                  /\ mounted' = [mounted EXCEPT ![V(s)] = w]
      <3>1. PICK w \in formatted :
                  /\ Named(call[s].dev, w)
                  /\ mounted' = [mounted EXCEPT ![V(s)] = w]
        BY <2>2
      <3>2. w \in Volumes
        BY DEF FInv, TypeOK
      <3>3. SInv => w = V(s)
        BY <1>1, <3>1, <3>2 DEF SInv, FInv, NamesApart, Sure, DevicePCs, Named
      <3> QED
        BY <1>1, <3>1, <3>2, <3>3 DEF FInv, TypeOK
    <2> QED
      BY <2>1, <2>2 DEF Mount
  <1> QED
    BY <1>1, <1>2, <1>3, ReturnStep DEF Mount

-----------------------------------------------------------------------------
(* The other steps.                                                        *)

\* A volume is unstaged: no name is given to another one.
LEMMA UnstageStep ==
    ASSUME FInv, NEW v \in Volumes, Unstage(v)
    PROVE  FInv' /\ (SInv /\ ~Overlap => SInv')
  <1>1. /\ TypeOK' /\ NamesApart'
        /\ \A w \in Volumes : w # v =>
              name'[w] = name[w] /\ mounted'[w] = mounted[w]
        /\ mounted'[v] = Nobody
    BY DEF Unstage, FInv, TypeOK, NamesApart
  <1>2. FInv'
    BY <1>1 DEF Unstage, FInv, LockHeld, HasPlace, V, At
  <1>3. ASSUME SInv, ~Overlap PROVE HoldsOwn' /\ \A s \in Slots : Sure(s)'
    <2>1. HoldsOwn'
      BY <1>1, <1>3 DEF SInv, HoldsOwn
    <2>2. ASSUME NEW s \in Slots PROVE Sure(s)'
      <3>1. /\ call' = call /\ V(s)' = V(s) /\ V(s) # v
            /\ formatted' = formatted
        BY <1>3 DEF Unstage, V
      <3>2. call[s].pc \in DevicePCs => V(s) \in Volumes
        BY DEF FInv, LockHeld, DevicePCs, StagePCs
      <3>3. Sure(s)
        BY <1>3 DEF SInv
      <3> QED
        BY <1>1, <3>1, <3>2, <3>3 DEF Sure
    <2> QED
      BY <2>1, <2>2
  <1> QED
    BY <1>2, <1>3 DEF SInv

\* A call begins.
LEMMA CallStep ==
    ASSUME FInv, NEW v \in Volumes, CallStage(v)
    PROVE  FInv' /\ (SInv => SInv')
  <1> DEFINE r == [Idle EXCEPT !.pc = "lock", !.vol = v]
  <1>1. PICK s \in Slots : /\ call[s].pc = "idle"
                           /\ call' = [call EXCEPT ![s] = r]
                           /\ awaits' = [awaits EXCEPT ![v] = s]
    BY DEF CallStage, At
  <1>2. r \in CallRecord /\ r.pc = "lock" /\ r.vol = v
    BY DEF Idle, CallRecord, StagePCs
  <1> HIDE DEF r
  <1>3. /\ call' \in [Slots -> CallRecord] /\ call'[s] = r /\ V(s)' = v
        /\ \A t \in Slots : t # s => call'[t] = call[t] /\ V(t)' = V(t)
    BY <1>1, <1>2, NewRecord DEF FInv, V
  <1>4. TypeOK' /\ NamesApart'
    BY <1>1, <1>3 DEF CallStage, FInv, TypeOK, NamesApart
  <1>5. LockHeld' /\ HasPlace'
    BY <1>2, <1>3 DEF CallStage, FInv, LockHeld, HasPlace, LockedPCs, At
  <1>6. ASSUME SInv PROVE HoldsOwn' /\ \A t \in Slots : Sure(t)'
    <2>1. HoldsOwn'
      BY <1>6 DEF CallStage, SInv, HoldsOwn
    <2>2. ASSUME NEW t \in Slots PROVE Sure(t)'
      <3>1. CASE t = s
        BY <1>2, <1>3, <3>1 DEF Sure, DevicePCs
      <3>2. CASE t # s
        BY <1>3, <1>6, <3>2 DEF CallStage, SInv, Sure
      <3> QED
        BY <3>1, <3>2
    <2> QED
      BY <2>1, <2>2
  <1> QED
    BY <1>4, <1>5, <1>6 DEF FInv, SInv

\* A call is given up, or the driver starts anew.
LEMMA StopStep ==
    ASSUME FInv, (\E v \in Volumes : Abandon(v)) \/ Crash \/ UNCHANGED vars
    PROVE  FInv' /\ (SInv => SInv')
  <1>1. CASE Crash
    <2>1. /\ Idle \in CallRecord /\ Idle.pc = "idle"
          /\ call' = [s \in Slots |-> Idle]
      BY <1>1 DEF Crash, Idle, CallRecord
    <2>2. \A s \in Slots : call'[s].pc = "idle"
      BY <2>1
    <2>3. TypeOK' /\ NamesApart'
      BY <1>1, <2>1 DEF Crash, FInv, TypeOK, NamesApart, Empty
    <2>4. LockHeld' /\ HasPlace'
      BY <2>2 DEF LockHeld, HasPlace, At, LockedPCs, StagePCs
    <2>5. \A s \in Slots : Sure(s)'
      BY <2>2 DEF Sure, DevicePCs
    <2>6. SInv => HoldsOwn'
      BY <1>1 DEF Crash, SInv, HoldsOwn
    <2> QED
      BY <2>3, <2>4, <2>5, <2>6 DEF FInv, SInv
  <1>2. CASE (\E v \in Volumes : Abandon(v)) \/ UNCHANGED vars
    <2>1. /\ call' = call /\ lock' = lock /\ place' = place /\ name' = name
          /\ formatted' = formatted /\ mounted' = mounted
          /\ awaits' \in [Volumes -> Slots \cup {Nobody}]
      BY <1>2 DEF Abandon, vars, FInv, TypeOK
    <2>2. FInv'
      BY <2>1 DEF FInv, TypeOK, LockHeld, HasPlace, NamesApart, V, At
    <2>3. SInv => HoldsOwn' /\ \A s \in Slots : Sure(s)'
      BY <2>1 DEF SInv, HoldsOwn, Sure, V
    <2> QED
      BY <2>2, <2>3 DEF SInv
  <1> QED
    BY <1>1, <1>2

\* Every step keeps the first invariant, and the second as well when unstaging
\* does not meet a stage call.
LEMMA FStep == FInv /\ [Next]_vars => FInv' /\ (SInv /\ ~Overlap => SInv')
  <1> SUFFICES ASSUME FInv, [Next]_vars
               PROVE  FInv' /\ (SInv /\ ~Overlap => SInv')
    OBVIOUS
  <1>1. ASSUME NEW s \in Slots, Lock(s) \/ Acquire(s) \/ StageStep(s)
        PROVE  FInv' /\ (SInv => SInv')
    BY <1>1, LockStep, AcquireStep, CheckMountedStep, CheckBlankStep,
       LosePlaceStep, MkfsStep, MountStep DEF StageStep
  <1>2. ASSUME NEW v \in Volumes, CallStage(v) \/ Unstage(v)
        PROVE  FInv' /\ (SInv /\ ~Overlap => SInv')
    BY <1>2, CallStep, UnstageStep
  <1> QED
    BY <1>1, <1>2, StopStep DEF Next

-----------------------------------------------------------------------------
(* The theorems.                                                           *)

\* A handler that waited for the place, however long, formats its own disk,
\* which is still blank and mounted nowhere, if its volume is not unstaged
\* meanwhile: retries of the call, other volumes and restarts do not matter.
THEOREM BlankIsFormatted ==
    ASSUME ~Overlap
    PROVE  Spec => []FormatsBlank
  <1>1. SInv => FormatsBlank
    <2> SUFFICES ASSUME SInv, NEW s \in Slots, call[s].pc = "mkfs"
                 PROVE  /\ call[s].disk = V(s)
                        /\ V(s) \notin formatted
                        /\ ~Mounted(V(s))
      BY DEF FormatsBlank, At
    <2>1. /\ call[s].disk = V(s) /\ V(s) \notin formatted
          /\ mounted[V(s)] = Nobody /\ V(s) \in Volumes
      BY DEF SInv, FInv, LockHeld, Sure, DevicePCs, StagePCs
    <2>2. ~Mounted(V(s))
      BY <2>1, FormatAssumption DEF SInv, HoldsOwn, Mounted
    <2> QED
      BY <2>1, <2>2
  <1>2. SInv /\ [Next]_vars => SInv'
    BY FStep DEF SInv
  <1> QED
    BY <1>1, <1>2, SInit, PTL DEF Spec

\* Of the mkfs that have not run for five minutes there is one, also when a
\* volume is unstaged while a stage call on it is running.
THEOREM OneFormat == Spec => []OneFormatAtATime
  <1>1. FInv => OneFormatAtATime
    BY DEF FInv, HasPlace, OneFormatAtATime
  <1>2. FInv /\ [Next]_vars => FInv'
    BY FStep
  <1>3. Init => FInv
    BY SInit DEF SInv
  <1> QED
    BY <1>1, <1>2, <1>3, PTL DEF Spec

=============================================================================
