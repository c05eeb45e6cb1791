--------------------------- MODULE SshPortProofs ---------------------------
(***************************************************************************)
(* What is proved of SshPort for any ports, firewalls and bounds: the types *)
(* of any calls; and, for one call on a host whose ssh.socket was not moved *)
(* before, that the server can be entered after one upset, that a complete  *)
(* rollback is one, and what the call may take from the firewalls.          *)
(***************************************************************************)
EXTENDS SshPort, TLAPS

-----------------------------------------------------------------------------
(* Types.                                                                   *)

HostType == [main: SUBSET Ports, drop: SUBSET Ports, bysock: BOOLEAN, sock: SUBSET Ports]

LEMMA GoIs ==
    ASSUME TypeOK, NEW o \in Ops, NEW pc \in Steps \cup Closed, Go(o, pc)
    PROVE  op'[o] = [op[o] EXCEPT !.pc = pc] /\ op' \in [Ops -> OpType]
<1>0. op[o] \in OpType
      BY DEF TypeOK
<1>1. [op[o] EXCEPT !.pc = pc] \in OpType
      BY <1>0 DEF OpType
<1> DEFINE s == [op[o] EXCEPT !.pc = pc]
<1>2. op' = [op EXCEPT ![o] = s]
      BY DEF Go
<1> HIDE DEF s
<1>3. op'[o] = s /\ op' \in [Ops -> OpType]
      BY <1>1, <1>2 DEF TypeOK, s
<1> QED BY <1>3 DEF s

LEMMA BecomesIs ==
    ASSUME TypeOK, NEW o \in Ops, NEW rec \in OpType, Becomes(o, rec)
    PROVE  op'[o] = rec /\ op' \in [Ops -> OpType]
BY DEF TypeOK, Becomes

LEMMA RaisedIs ==
    ASSUME TypeOK, NEW o \in Ops, Raised(o)
    PROVE  /\ op' \in [Ops -> OpType]
           /\ \E pc \in {"broken", "preclear", "fallback"} :
                 /\ op'[o] = [op[o] EXCEPT !.pc = pc]
                 /\ pc = "preclear" <=> op[o].sock = "yes"
                 /\ pc = "broken" <=> op[o].sock = "unbound"
BY GoIs DEF Raised, Steps, Closed

LEMMA NextSessionIs ==
    ASSUME TypeOK, NEW o \in Ops, NextSession(o)
    PROVE  /\ op' \in [Ops -> OpType]
           /\ \/ /\ op[o].via = "ctl" /\ op[o].fall
                 /\ op'[o] = [op[o] EXCEPT !.via = "fall", !.pc = "rfile"]
              \/ /\ ~(op[o].via = "ctl" /\ op[o].fall)
                 /\ op'[o] = [op[o] EXCEPT !.pc = "rverify"]
<1>1. op[o] \in OpType
      BY DEF TypeOK
<1>2. /\ [op[o] EXCEPT !.via = "fall", !.pc = "rfile"] \in OpType
      /\ [op[o] EXCEPT !.pc = "rverify"] \in OpType
      BY <1>1 DEF OpType, Steps, Closed
<1> QED BY <1>2, BecomesIs DEF NextSession

LEMMA RecoverIs ==
    ASSUME TypeOK, NEW o \in Ops, NEW rec \in OpType, RecoverWith(o, rec)
    PROVE  /\ op' \in [Ops -> OpType]
           /\ \E pc \in {"fallback", "reopen"} :
                 /\ op'[o] = [rec EXCEPT !.todo = Walls, !.added = op[o].added,
                                         !.spoilt = FALSE, !.pc = pc]
                 /\ pc = "fallback" <=> Walls = {}
<1> DEFINE pc == IF Walls = {} THEN "fallback" ELSE "reopen"
           s == [rec EXCEPT !.todo = Walls, !.added = op[o].added, !.spoilt = FALSE, !.pc = pc]
<1>1. pc \in Steps /\ op[o].added \in SUBSET Walls
      BY DEF Steps, TypeOK, OpType
<1> HIDE DEF pc
<1>2. s \in OpType
      BY <1>1 DEF OpType
<1>3. Becomes(o, s)
      BY DEF RecoverWith, pc
<1>4. op'[o] = s /\ op' \in [Ops -> OpType]
      BY <1>2, <1>3, BecomesIs
<1> QED BY <1>4 DEF pc

LEMMA FaultsType ==
    ASSUME TypeOK, Upset \/ Fine
    PROVE  faults' \in 0..MaxFaults
BY PortAssumption DEF Upset, Fine, TypeOK

\* The ssh.socket drop-in: it is written or not, and then sshd listens anew or not.
LEMMA SocketSteps ==
    ASSUME TypeOK, NEW o \in Ops, NEW ports \in SUBSET Ports, NEW next, NEW broken,
           Socket(o, ports, next, broken)
    PROVE  conf' \in HostType /\ live' \in SUBSET Ports /\ faults' \in 0..MaxFaults
<1>1. [conf EXCEPT !.sock = ports] \in HostType /\ conf \in HostType
      BY DEF TypeOK, HostType
<1>2. conf' \in HostType
      BY <1>1 DEF Socket, Works, Fails
<1>3. live' = live \/ live' = Configured(conf')
      BY DEF Socket, Works, Fails
<1>4. live' \in SUBSET Ports
      BY <1>2, <1>3, PortAssumption DEF Configured, HostType, TypeOK
<1>5. faults' \in 0..MaxFaults
      BY FaultsType DEF Socket, Works, Fails
<1> QED BY <1>2, <1>4, <1>5

LEMMA SetAllowType ==
    ASSUME TypeOK, NEW w \in Walls, NEW ports \in SUBSET Ports,
           UNCHANGED allow \/ SetAllow(w, ports)
    PROVE  allow' \in [Walls -> SUBSET Ports]
BY DEF SetAllow, TypeOK

LEMMA OpeningType ==
    ASSUME TypeOK, NEW o \in Ops,
           \/ Connect(o) \/ Preflight(o) \/ Snapshot(o)
           \/ \E p \in Ports : Begin(o, p)
           \/ \E w \in Walls : OpenNew(o, w) \/ Unopen(o, w)
    PROVE  TypeOK'
<1> DEFINE r == op[o]
<1>0. r \in OpType /\ \A w \in Walls : allow[w] \in SUBSET Ports
      BY DEF TypeOK
<1>1. ASSUME NEW p \in Ports, Begin(o, p) PROVE TypeOK'
  <2> DEFINE rec == [r EXCEPT !.pc = "connect", !.old = record, !.new = p,
                              !.before = [live |-> live, allow |-> allow]]
  <2>1. rec \in OpType
        BY <1>0 DEF OpType, Steps, TypeOK
  <2>2. op' = [op EXCEPT ![o] = rec]
        BY <1>1 DEF Begin
  <2> HIDE DEF rec
  <2>3. op' \in [Ops -> OpType]
        BY <2>1, <2>2 DEF TypeOK
  <2> QED BY <1>1, <2>3 DEF Begin, host, TypeOK
<1>2. CASE Connect(o)
  <2>1. [r EXCEPT !.pc = "preflight", !.ctl = TRUE] \in OpType
        BY <1>0 DEF OpType, Steps
  <2>2. op' \in [Ops -> OpType]
        BY <1>2, <2>1, GoIs, BecomesIs DEF Connect, Answer, Closed
  <2> QED BY <1>2, <2>2, FaultsType DEF Connect, Answer, host, TypeOK
<1>3. CASE Preflight(o)
  <2>1. \A pc \in Steps : [r EXCEPT !.todo = Walls, !.pc = pc] \in OpType
        BY <1>0 DEF OpType
  <2>2. op' \in [Ops -> OpType] /\ faults' \in 0..MaxFaults
    <3>1. CASE Works(o, Becomes(o, [r EXCEPT !.todo = Walls,
                                             !.pc = IF Walls = {} THEN "snapshot" ELSE "open"]))
          BY <2>1, <3>1, BecomesIs, FaultsType DEF Steps, Works
    <3>2. CASE Fails(o, Go(o, "failed"), FALSE)
          BY <3>2, GoIs, FaultsType DEF Fails, Closed
    <3> QED BY <1>3, <3>1, <3>2 DEF Preflight
  <2> QED BY <1>3, <2>2 DEF Preflight, host, TypeOK
<1>4. CASE Snapshot(o)
  <2>1. [r EXCEPT !.snap = conf.drop, !.pc = "write", !.want = {r.old, r.new}] \in OpType
        BY <1>0 DEF OpType, Steps, TypeOK
  <2>2. op' \in [Ops -> OpType] /\ faults' \in 0..MaxFaults
    <3>1. CASE Works(o, Becomes(o, [r EXCEPT !.snap = conf.drop, !.pc = "write",
                                             !.want = {r.old, r.new}]))
          BY <2>1, <3>1, BecomesIs, FaultsType DEF Works
    <3>2. CASE Fails(o, Go(o, "failed"), FALSE)
          BY <3>2, GoIs, FaultsType DEF Fails, Closed
    <3> QED BY <1>4, <3>1, <3>2 DEF Snapshot
  <2> QED BY <1>4, <2>2 DEF Snapshot, host, TypeOK
<1>5. ASSUME NEW w \in Walls, OpenNew(o, w) PROVE TypeOK'
  <2>1. /\ allow[w] \cup {r.new} \in SUBSET Ports
        /\ r.todo \ {w} \in SUBSET Walls /\ r.added \cup AddedBy(o, w) \in SUBSET Walls
        /\ r.added \in SUBSET Walls
        BY <1>0 DEF OpType, AddedBy
  <2>2. \A pc \in Steps :
           /\ [r EXCEPT !.todo = r.todo \ {w}, !.added = r.added \cup AddedBy(o, w),
                        !.pc = pc] \in OpType
           /\ \A a, k \in SUBSET Walls :
                [r EXCEPT !.todo = r.added, !.restored = TRUE, !.added = a,
                          !.overlooked = k, !.pc = pc] \in OpType
        BY <1>0, <2>1 DEF OpType
  <2>3. /\ op' \in [Ops -> OpType] /\ faults' \in 0..MaxFaults
        /\ \/ UNCHANGED allow \/ SetAllow(w, allow[w])
           \/ SetAllow(w, allow[w] \cup {r.new})
    <3>1. CASE /\ Works(o, SetAllow(w, allow[w] \cup {r.new}))
               /\ Becomes(o, [r EXCEPT !.todo = r.todo \ {w}, !.added = r.added \cup AddedBy(o, w),
                    !.pc = IF r.todo \ {w} = {} THEN "snapshot" ELSE "open"])
          BY <2>2, <3>1, BecomesIs, FaultsType DEF Steps, Works
    <3>2. ASSUME NEW got \in SUBSET AddedBy(o, w), NEW seen \in SUBSET got, Upset,
                 SetAllow(w, IF got = {} THEN allow[w] ELSE allow[w] \cup {r.new}),
                 Becomes(o, [r EXCEPT !.todo = r.added, !.restored = TRUE,
                    !.added = r.added \cup seen, !.overlooked = r.overlooked \cup (got \ seen),
                    !.pc = IF r.added = {} THEN "rverify" ELSE "unopen"])
          PROVE  /\ op' \in [Ops -> OpType] /\ faults' \in 0..MaxFaults
                 /\ SetAllow(w, allow[w]) \/ SetAllow(w, allow[w] \cup {r.new})
      <4> DEFINE a == r.added \cup seen
                 k == r.overlooked \cup (got \ seen)
                 pc == IF r.added = {} THEN "rverify" ELSE "unopen"
      <4>1. a \in SUBSET Walls /\ k \in SUBSET Walls /\ pc \in Steps
            BY <1>0 DEF OpType, AddedBy, Steps
      <4> HIDE DEF a, k, pc
      <4>2. [r EXCEPT !.todo = r.added, !.restored = TRUE, !.added = a,
                      !.overlooked = k, !.pc = pc] \in OpType
            BY <2>2, <4>1
      <4>3. Becomes(o, [r EXCEPT !.todo = r.added, !.restored = TRUE, !.added = a,
                      !.overlooked = k, !.pc = pc])
            BY <3>2 DEF a, k, pc
      <4>4. op' \in [Ops -> OpType]
            BY <4>2, <4>3, BecomesIs
      <4> QED BY <3>2, <4>4, FaultsType
    <3>3. CASE /\ Fails(o, UNCHANGED allow, SetAllow(w, allow[w] \cup {r.new}))
               /\ Go(o, "failed")
          BY <3>3, GoIs, FaultsType DEF Fails, Closed
    <3> QED BY <1>5, <3>1, <3>2, <3>3 DEF OpenNew
  <2>4. allow' \in [Walls -> SUBSET Ports]
    <3>1. allow[w] \in SUBSET Ports
          BY <1>0
    <3> QED BY <2>1, <2>3, <3>1, SetAllowType
  <2> QED BY <1>5, <2>3, <2>4 DEF OpenNew, TypeOK
<1>6. ASSUME NEW w \in Walls, Unopen(o, w) PROVE TypeOK'
  <2> DEFINE gone == SetAllow(w, allow[w] \ {r.new})
             pc == IF r.todo \ {w} = {} THEN "rverify" ELSE "unopen"
  <2>1. /\ [r EXCEPT !.todo = r.todo \ {w}, !.added = r.added \ {w}, !.pc = pc] \in OpType
        /\ [r EXCEPT !.todo = r.todo \ {w}, !.pc = pc] \in OpType
        BY <1>0 DEF OpType, Steps
  <2>2. op' \in [Ops -> OpType]
        BY <1>6, <2>1, BecomesIs DEF Unopen
  <2>3. faults' \in 0..MaxFaults /\ (UNCHANGED allow \/ gone)
        BY <1>6, FaultsType DEF Unopen, Works, Fails
  <2>4. allow' \in [Walls -> SUBSET Ports]
        BY <1>0, <2>3, SetAllowType
  <2> QED BY <1>6, <2>2, <2>3, <2>4 DEF Unopen, TypeOK
<1> QED BY <1>1, <1>2, <1>3, <1>4, <1>5, <1>6

LEMMA ServingType ==
    ASSUME TypeOK, NEW o \in Ops,
           \/ Write(o) \/ SocketAsked(o) \/ ListenBySocket(o)
           \/ Reload(o) \/ CheckListeners(o) \/ Verify(o)
    PROVE  TypeOK'
<1> DEFINE r == op[o]
<1>0. r \in OpType /\ Configured(conf) \in SUBSET Ports
      BY PortAssumption DEF TypeOK, Configured
<1>1. CASE Write(o)
  <2>1. [conf EXCEPT !.drop = r.want] \in HostType
        BY <1>0 DEF OpType, TypeOK, HostType
  <2>2. /\ conf' = [conf EXCEPT !.drop = r.want] \/ conf' = conf
        /\ faults' \in 0..MaxFaults
        BY <1>1, FaultsType DEF Write, Works, Fails
  <2>3. op' \in [Ops -> OpType]
        BY <1>1, GoIs, RaisedIs DEF Write, Steps
  <2> QED BY <1>1, <2>1, <2>2, <2>3 DEF Write, TypeOK, HostType
<1>2. CASE SocketAsked(o)
  <2>1. /\ [r EXCEPT !.sock = "yes", !.pc = "socket"] \in OpType
        /\ [r EXCEPT !.sock = "no", !.pc = "reload"] \in OpType
        BY <1>0 DEF OpType, Steps
  <2>2. op' \in [Ops -> OpType] /\ faults' \in 0..MaxFaults
    <3>1. CASE Works(o, Becomes(o, IF conf.bysock THEN [r EXCEPT !.sock = "yes", !.pc = "socket"]
                                   ELSE [r EXCEPT !.sock = "no", !.pc = "reload"]))
          BY <2>1, <3>1, BecomesIs, FaultsType DEF Works
    <3>2. CASE Fails(o, Raised(o), FALSE)
          BY <3>2, RaisedIs, FaultsType DEF Fails
    <3>3. CASE Upset /\ Becomes(o, [r EXCEPT !.sock = "no", !.pc = "reload"])
          BY <2>1, <3>3, BecomesIs, FaultsType
    <3> QED BY <1>2, <3>1, <3>2, <3>3 DEF SocketAsked
  <2> QED BY <1>2, <2>2 DEF SocketAsked, host, TypeOK
<1>3. CASE ListenBySocket(o)
  <2>1. Socket(o, r.want, Go(o, "reload"), Raised(o)) /\ UNCHANGED <<allow, record>>
        BY <1>3 DEF ListenBySocket
  <2>2. conf' \in HostType /\ live' \in SUBSET Ports /\ faults' \in 0..MaxFaults
    <3>1. r.want \in SUBSET Ports
          BY <1>0 DEF OpType
    <3> QED BY <2>1, <3>1, SocketSteps
  <2>3. op' \in [Ops -> OpType]
        BY <2>1, GoIs, RaisedIs DEF Socket, Steps
  <2> QED BY <2>1, <2>2, <2>3 DEF TypeOK, HostType
<1>4. CASE Reload(o)
  <2>1. op' \in [Ops -> OpType]
        BY <1>4, GoIs, RaisedIs DEF Reload, Steps
  <2>2. live' \in SUBSET Ports /\ faults' \in 0..MaxFaults
        BY <1>0, <1>4, FaultsType DEF Reload, Reloaded, Works, Fails, TypeOK
  <2> QED BY <1>4, <2>1, <2>2 DEF Reload, TypeOK
<1>5. CASE CheckListeners(o)
      BY <1>5, GoIs, RaisedIs, FaultsType DEF CheckListeners, Answer, host, TypeOK, Steps
<1>6. CASE Verify(o)
  <2>1. /\ [r EXCEPT !.pc = "commit"] \in OpType
        /\ [r EXCEPT !.pc = "write", !.want = {r.new}] \in OpType
        BY <1>0 DEF OpType, Steps
  <2>2. op' \in [Ops -> OpType]
        BY <1>6, <2>1, GoIs, BecomesIs DEF Verify, Answer, Steps
  <2> QED BY <1>6, <2>2, FaultsType DEF Verify, Answer, host, TypeOK
<1> QED BY <1>1, <1>2, <1>3, <1>4, <1>5, <1>6

LEMMA SettlingType ==
    ASSUME TypeOK, NEW o \in Ops,
           Commit(o) \/ Final(o) \/ \E w \in Walls : CloseOld(o, w)
    PROVE  TypeOK'
<1> DEFINE r == op[o]
<1>0. r \in OpType /\ \A w \in Walls : allow[w] \in SUBSET Ports
      BY DEF TypeOK
<1>1. CASE Commit(o)
  <2>1. /\ \A pc \in Steps : [r EXCEPT !.committed = TRUE, !.todo = Walls, !.pc = pc] \in OpType
        /\ r.new \in Ports
        BY <1>0 DEF OpType
  <2>2. op' \in [Ops -> OpType] /\ faults' \in 0..MaxFaults /\ record' \in Ports
    <3>1. CASE /\ record = r.old /\ record' = r.new /\ Fine
               /\ Becomes(o, [r EXCEPT !.committed = TRUE, !.todo = Walls,
                                       !.pc = IF Walls = {} THEN "final" ELSE "close"])
          BY <2>1, <3>1, BecomesIs, FaultsType DEF Steps
    <3>2. CASE record # r.old /\ UNCHANGED record /\ Fine /\ Go(o, "fallback")
          BY <3>2, GoIs, FaultsType DEF Steps, TypeOK
    <3>3. CASE UNCHANGED record /\ Upset /\ Raised(o)
          BY <3>3, RaisedIs, FaultsType DEF TypeOK
    <3> QED BY <1>1, <3>1, <3>2, <3>3 DEF Commit
  <2> QED BY <1>1, <2>2 DEF Commit, host, TypeOK
<1>2. CASE Final(o)
      BY <1>0, <1>2, GoIs, RecoverIs, FaultsType DEF Final, Answer, host, TypeOK, Closed
<1>3. ASSUME NEW w \in Walls, CloseOld(o, w) PROVE TypeOK'
  <2> DEFINE closed == [r EXCEPT !.todo = r.todo \ {w}]
             spoilt == [closed EXCEPT !.spoilt = TRUE]
  <2>1. closed \in OpType
        BY <1>0 DEF OpType
  <2>2. spoilt \in OpType
        BY <2>1 DEF OpType
  <2>3. /\ AfterClose(o, closed) \/ AfterClose(o, spoilt) \/ RecoverWith(o, r)
        /\ faults' \in 0..MaxFaults
        /\ UNCHANGED allow \/ SetAllow(w, allow[w] \ {r.old})
        BY <1>3, FaultsType DEF CloseOld, Works, Fails
  <2> HIDE DEF closed, spoilt
  <2>4. ASSUME NEW rec \in OpType, AfterClose(o, rec) PROVE op' \in [Ops -> OpType]
    <3>1. [rec EXCEPT !.pc = "final"] \in OpType
          BY DEF OpType, Steps
    <3> QED BY <2>4, <3>1, BecomesIs, RecoverIs DEF AfterClose
  <2>5. op' \in [Ops -> OpType]
        BY <1>0, <2>1, <2>2, <2>3, <2>4, RecoverIs
  <2>6. allow' \in [Walls -> SUBSET Ports]
        BY <1>0, <2>3, SetAllowType
  <2> QED BY <1>3, <2>3, <2>5, <2>6 DEF CloseOld, TypeOK
<1> QED BY <1>1, <1>2, <1>3

LEMMA RecoveringType ==
    ASSUME TypeOK, NEW o \in Ops,
           \/ \E w \in Walls : ReopenOld(o, w) \/ Unreopen(o, w)
           \/ Preclear(o) \/ Fallback(o)
    PROVE  TypeOK'
<1> DEFINE r == op[o]
<1>0. r \in OpType /\ \A w \in Walls : allow[w] \in SUBSET Ports
      BY DEF TypeOK
<1>1. ASSUME NEW w \in Walls, ReopenOld(o, w) PROVE TypeOK'
  <2> DEFINE back == IF r.old \in allow[w] THEN r.back ELSE r.back \cup {w}
  <2>1. /\ back \in SUBSET Walls /\ r.todo \ {w} \in SUBSET Walls /\ r.back \in SUBSET Walls
        /\ allow[w] \cup {r.old} \in SUBSET Ports
        BY <1>0 DEF OpType
  <2> HIDE DEF back
  <2>2. \A pc \in Steps :
           /\ [r EXCEPT !.todo = r.todo \ {w}, !.back = back, !.pc = pc] \in OpType
           /\ [r EXCEPT !.todo = r.back, !.pc = pc] \in OpType
        BY <1>0, <2>1 DEF OpType
  <2>3. /\ op' \in [Ops -> OpType] /\ faults' \in 0..MaxFaults
        /\ UNCHANGED allow \/ SetAllow(w, allow[w] \cup {r.old})
    <3>1. CASE /\ Works(o, SetAllow(w, allow[w] \cup {r.old}))
               /\ Becomes(o, [r EXCEPT !.todo = r.todo \ {w}, !.back = back,
                    !.pc = IF r.todo \ {w} = {} THEN "fallback" ELSE "reopen"])
          BY <2>2, <3>1, BecomesIs, FaultsType DEF Steps, Works
    <3>2. CASE /\ Session(o) /\ Upset
               /\ UNCHANGED allow \/ SetAllow(w, allow[w] \cup {r.old})
               /\ Becomes(o, [r EXCEPT !.todo = r.back,
                    !.pc = IF r.back = {} THEN "fallback" ELSE "unreopen"])
          BY <2>2, <3>2, BecomesIs, FaultsType DEF Steps
    <3>3. CASE /\ Fails(o, UNCHANGED allow, SetAllow(w, allow[w] \cup {r.old}))
               /\ Go(o, "fallback")
          BY <3>3, GoIs, FaultsType DEF Fails, Steps
    <3> QED BY <1>1, <3>1, <3>2, <3>3 DEF ReopenOld, back
  <2>4. allow' \in [Walls -> SUBSET Ports]
        BY <2>1, <2>3, SetAllowType
  <2> QED BY <1>1, <2>3, <2>4 DEF ReopenOld, TypeOK
<1>2. ASSUME NEW w \in Walls, Unreopen(o, w) PROVE TypeOK'
  <2> DEFINE pc == IF r.todo \ {w} = {} THEN "fallback" ELSE "unreopen"
  <2>1. [r EXCEPT !.todo = r.todo \ {w}, !.pc = pc] \in OpType
        BY <1>0 DEF OpType, Steps
  <2>2. op' \in [Ops -> OpType]
        BY <1>2, <2>1, BecomesIs DEF Unreopen
  <2>3. faults' \in 0..MaxFaults /\ (UNCHANGED allow \/ SetAllow(w, allow[w] \ {r.old}))
        BY <1>2, FaultsType DEF Unreopen, Works, Fails
  <2>4. allow' \in [Walls -> SUBSET Ports]
        BY <1>0, <2>3, SetAllowType
  <2> QED BY <1>2, <2>2, <2>3, <2>4 DEF Unreopen, TypeOK
<1>3. CASE Preclear(o)
  <2>1. Socket(o, {}, Go(o, "fallback"), Go(o, "broken")) /\ UNCHANGED <<allow, record>>
        BY <1>3 DEF Preclear
  <2>2. conf' \in HostType /\ live' \in SUBSET Ports /\ faults' \in 0..MaxFaults
        BY <2>1, SocketSteps
  <2>3. op' \in [Ops -> OpType]
        BY <2>1, GoIs DEF Socket, Steps, Closed
  <2> QED BY <2>1, <2>2, <2>3 DEF TypeOK, HostType
<1>4. CASE Fallback(o)
  <2>1. [r EXCEPT !.fall = TRUE, !.pc = "rfile"] \in OpType
        BY <1>0 DEF OpType, Steps
  <2>2. op' \in [Ops -> OpType]
        BY <1>4, <2>1, GoIs, BecomesIs DEF Fallback, Answer, Steps
  <2> QED BY <1>4, <2>2, FaultsType DEF Fallback, Answer, host, TypeOK
<1> QED BY <1>1, <1>2, <1>3, <1>4

LEMMA UndoingType ==
    ASSUME TypeOK, NEW o \in Ops,
           \/ RestoreFile(o) \/ RestoreSocket(o) \/ RestoreReload(o) \/ RestoreVerify(o)
           \/ RestoreListen(o) \/ Revert(o) \/ Cleanup(o)
    PROVE  TypeOK'
<1> DEFINE r == op[o]
<1>0. /\ r \in OpType /\ Configured(conf) \in SUBSET Ports
      /\ \A w \in Walls : allow[w] \in SUBSET Ports
      BY PortAssumption DEF TypeOK, Configured
<1>1. CASE RestoreFile(o)
  <2>1. [conf EXCEPT !.drop = r.snap] \in HostType
        BY <1>0 DEF OpType, TypeOK, HostType
  <2>2. /\ conf' = [conf EXCEPT !.drop = r.snap] \/ conf' = conf
        /\ faults' \in 0..MaxFaults
        BY <1>1, FaultsType DEF RestoreFile, Works, Fails
  <2>3. op' \in [Ops -> OpType]
        BY <1>1, GoIs, NextSessionIs DEF RestoreFile, Steps
  <2> QED BY <1>1, <2>1, <2>2, <2>3 DEF RestoreFile, TypeOK, HostType
<1>2. CASE RestoreSocket(o)
  <2>1. Socket(o, {}, Go(o, "rload"), NextSession(o)) /\ UNCHANGED <<allow, record>>
        BY <1>2 DEF RestoreSocket
  <2>2. conf' \in HostType /\ live' \in SUBSET Ports /\ faults' \in 0..MaxFaults
        BY <2>1, SocketSteps
  <2>3. op' \in [Ops -> OpType]
        BY <2>1, GoIs, NextSessionIs DEF Socket, Steps
  <2> QED BY <2>1, <2>2, <2>3 DEF TypeOK, HostType
<1>3. CASE RestoreReload(o)
  <2>1. [r EXCEPT !.restored = TRUE, !.pc = "rverify"] \in OpType
        BY <1>0 DEF OpType, Steps
  <2>2. op' \in [Ops -> OpType]
        BY <1>3, <2>1, BecomesIs, NextSessionIs DEF RestoreReload
  <2>3. live' \in SUBSET Ports /\ faults' \in 0..MaxFaults
        BY <1>0, <1>3, FaultsType DEF RestoreReload, Reloaded, Works, Fails, TypeOK
  <2> QED BY <1>3, <2>2, <2>3 DEF RestoreReload, TypeOK
<1>4. CASE RestoreVerify(o)
  <2>1. [r EXCEPT !.proved = TRUE, !.pc = "rlisten"] \in OpType
        BY <1>0 DEF OpType, Steps
  <2>2. op' \in [Ops -> OpType]
        BY <1>4, <2>1, GoIs, BecomesIs DEF RestoreVerify, Answer, Steps
  <2> QED BY <1>4, <2>2, FaultsType DEF RestoreVerify, Answer, host, TypeOK
<1>5. CASE RestoreListen(o)
  <2> DEFINE on(c) == [r EXCEPT !.complete = c /\ r.restored /\ r.proved,
                                !.via = "ctl", !.todo = r.added,
                                !.pc = IF r.committed THEN "revert" ELSE "cleanup"]
  <2>1. ASSUME NEW c \in BOOLEAN PROVE on(c) \in OpType
    <3>1. /\ (c /\ r.restored /\ r.proved) \in BOOLEAN
          /\ (IF r.committed THEN "revert" ELSE "cleanup") \in Steps
          BY DEF Steps
    <3> QED BY <1>0, <3>1 DEF OpType
  <2>2. Becomes(o, on(TRUE)) \/ Becomes(o, on(FALSE))
        BY <1>5 DEF RestoreListen, Answer
  <2> HIDE DEF on
  <2>3. op' \in [Ops -> OpType]
        BY <2>1, <2>2, BecomesIs
  <2> QED BY <1>5, <2>3, FaultsType DEF RestoreListen, Answer, host, TypeOK
<1>6. CASE Revert(o)
  <2> DEFINE rec(ok) == [r EXCEPT !.complete = r.complete /\ ok, !.pc = "cleanup"]
  <2>1. ASSUME NEW ok \in BOOLEAN PROVE rec(ok) \in OpType
    <3>1. (r.complete /\ ok) \in BOOLEAN /\ "cleanup" \in Steps
          BY DEF Steps
    <3> QED BY <1>0, <3>1 DEF OpType
  <2>2. /\ Becomes(o, rec(TRUE)) \/ Becomes(o, rec(FALSE))
        /\ record' \in {record, r.old} /\ (Fine \/ Upset) /\ UNCHANGED host
        BY <1>6 DEF Revert
  <2> HIDE DEF rec
  <2>3. op' \in [Ops -> OpType]
        BY <2>1, <2>2, BecomesIs
  <2>4. record' \in Ports
        BY <1>0, <2>2 DEF TypeOK, OpType
  <2> QED BY <2>2, <2>3, <2>4, FaultsType DEF host, TypeOK
<1>7. CASE Cleanup(o)
  <2>1. CASE CleanedBy(o) = {}
        BY <1>7, <2>1, GoIs DEF Cleanup, TypeOK, Closed
  <2>2. CASE CleanedBy(o) # {}
    <3>1. PICK w \in CleanedBy(o) :
             \/ /\ Works(o, SetAllow(w, allow[w] \ {r.new}))
                /\ Becomes(o, [r EXCEPT !.todo = r.todo \ {w}, !.added = r.added \ {w}])
             \/ /\ Fails(o, UNCHANGED allow, SetAllow(w, allow[w] \ {r.new}))
                /\ Becomes(o, [r EXCEPT !.todo = r.todo \ {w}])
          BY <1>7, <2>2 DEF Cleanup
    <3>2. w \in Walls
          BY <1>0, <2>2 DEF CleanedBy, OpType
    <3>3. /\ [r EXCEPT !.todo = r.todo \ {w}, !.added = r.added \ {w}] \in OpType
          /\ [r EXCEPT !.todo = r.todo \ {w}] \in OpType
          BY <1>0 DEF OpType
    <3>4. op' \in [Ops -> OpType]
          BY <3>1, <3>3, BecomesIs
    <3>5. faults' \in 0..MaxFaults /\ (UNCHANGED allow \/ SetAllow(w, allow[w] \ {r.new}))
          BY <3>1, FaultsType DEF Works, Fails
    <3>6. allow' \in [Walls -> SUBSET Ports]
          BY <1>0, <3>2, <3>5, SetAllowType
    <3> QED BY <1>7, <3>4, <3>5, <3>6 DEF Cleanup, TypeOK
  <2> QED BY <2>1, <2>2
<1> QED BY <1>1, <1>2, <1>3, <1>4, <1>5, <1>6, <1>7

LEMMA DyingType ==
    ASSUME TypeOK, Reboot \/ PanelDies
    PROVE  TypeOK'
<1>1. CASE Reboot
  <2>1. ASSUME NEW r \in OpType PROVE [r EXCEPT !.ctl = FALSE, !.fall = FALSE] \in OpType
        BY DEF OpType
  <2>2. op' \in [Ops -> OpType]
        BY <1>1, <2>1 DEF Reboot, TypeOK
  <2>3. live' \in SUBSET Ports
        BY <1>1, PortAssumption DEF Reboot, Configured, TypeOK
  <2> QED BY <1>1, <2>2, <2>3, FaultsType DEF Reboot, TypeOK
<1>2. CASE PanelDies
  <2>1. ASSUME NEW r \in OpType PROVE [r EXCEPT !.pc = "dead"] \in OpType
        BY DEF OpType, Closed
  <2>2. op' \in [Ops -> OpType]
        BY <1>2, <2>1 DEF PanelDies, TypeOK
  <2> QED BY <1>2, <2>2, FaultsType DEF PanelDies, host, TypeOK
<1> QED BY <1>1, <1>2

LEMMA InitType == Init => TypeOK
<1> SUFFICES ASSUME Init PROVE TypeOK
    OBVIOUS
<1>1. /\ conf \in HostType /\ record \in Ports /\ live \in SUBSET Ports
      /\ allow \in [Walls -> SUBSET Ports]
      BY HostAssumption, PortAssumption DEF Init, Configured, HostType
<1>2. faults \in 0..MaxFaults
      BY PortAssumption DEF Init
<1>3. op \in [Ops -> OpType]
      BY <1>1 DEF Init, OpType, Closed
<1> QED BY <1>1, <1>2, <1>3 DEF TypeOK, HostType

LEMMA NextType == TypeOK /\ [Next]_vars => TypeOK'
<1> SUFFICES ASSUME TypeOK, [Next]_vars PROVE TypeOK'
    OBVIOUS
<1>1. CASE UNCHANGED vars
      BY <1>1 DEF vars, TypeOK
<1>2. ASSUME NEW o \in Ops, Proceed(o) \/ \E p \in Ports : Begin(o, p) PROVE TypeOK'
      BY <1>2, OpeningType, ServingType, SettlingType, RecoveringType, UndoingType DEF Proceed
<1>3. CASE Reboot \/ PanelDies
      BY <1>3, DyingType
<1> QED BY <1>1, <1>2, <1>3 DEF Next

\* The server, the firewalls, servers.json and every call keep their types.
THEOREM PortTypes == Spec => []TypeOK
<1> QED BY InitType, NextType, PTL DEF Spec

-----------------------------------------------------------------------------
(* One call: the inductive invariant.                                       *)

Early == {"idle", "connect", "preflight", "open", "unopen", "snapshot"}
Onward == {"write", "sockq", "socket", "reload", "check", "verify"}
Settling == {"commit", "close", "final"}
Undoing == {"rfile", "rsock", "rload", "rverify", "rlisten", "revert", "cleanup"}
Back == {"reopen", "unreopen", "preclear", "fallback"} \cup Undoing
Over == {"done", "failed", "broken", "dead"}
Ending == {"rverify", "rlisten", "cleanup"}

\* Found: what the snapshot's files make sshd listen on.
AllAdmit(p) == \A w \in Walls : p \in allow[w]
Stays(p) == p \in live /\ p \in Configured(conf)
Found(o) == LET own == IF conf.bysock THEN {} ELSE conf.main \cup op[o].snap
            IN  IF own = {} THEN {Base} ELSE own

\* What each step of the call says of its flags.
CallInv(o) ==
  LET r == op[o] IN
  /\ r.pc = "idle" => r.added = {} /\ r.overlooked = {} /\ r.via = "ctl"
  /\ r.pc # "idle" => r.old # r.new
  /\ r.want \in {{}, {r.old, r.new}, {r.new}}
  /\ r.pc \in Early => r.want = {}
  /\ r.pc \in Onward \cup Settling => r.want # {}
  /\ r.pc \in Settling => r.want = {r.new}
  /\ r.want = {} /\ r.pc \in Back => r.pc \in Ending /\ r.restored
  /\ r.pc = "unopen" => r.restored
  /\ r.want = {} => ~r.committed
  /\ r.committed => r.pc \in {"close", "final"} \cup (Back \ {"preclear"}) \cup Over
  /\ r.pc \in {"close", "final", "reopen", "unreopen", "revert"} => r.committed
  /\ r.pc \in Steps \ {"rfile", "rsock", "rload", "rverify", "rlisten"} => r.via = "ctl"
  /\ r.fall => r.pc \in Undoing \cup Over
  /\ r.sock = "yes" => conf.bysock
  /\ r.sock = "no" /\ conf.bysock => faults > 0 /\ r.pc \in {"reload", "check"} \cup Back \cup Over
  /\ r.pc \in {"socket", "preclear"} => r.sock = "yes"
  /\ r.pc = "sockq" => r.sock = "unbound"
  /\ r.restored => r.pc \in {"unopen", "rverify", "rlisten", "revert", "cleanup"} \cup Over
  /\ r.complete => r.restored /\ r.proved /\ r.pc \in {"revert", "cleanup"} \cup Over
  /\ r.proved => r.pc \in {"rlisten", "revert", "cleanup"} \cup Over

\* sshd's files and listeners: as found, for both ports, or for the new one.
FilesInv(o) ==
  LET r == op[o] IN
  /\ r.want = {} => /\ live = Configured(conf) /\ r.old \in live
                    /\ conf.bysock => conf.sock = {}
                    /\ r.pc # "idle" => r.before.live = live
  /\ r.want # {} => /\ conf.drop \in {r.snap, {r.old, r.new}, {r.new}}
                    /\ conf.bysock => conf.sock \in {{}, {r.old, r.new}, {r.new}}
                    /\ Found(o) = r.before.live /\ r.old \in r.before.live
                    /\ r.old \in live \/ r.new \in live
  /\ r.pc \in {"sockq", "socket", "reload", "check", "verify"} \cup Settling => conf.drop = r.want
  /\ r.pc \in {"verify"} \cup Settling /\ conf.bysock => conf.sock = r.want
  /\ r.pc \in {"reload", "check"} /\ conf.bysock =>
        r.sock = "no" \/ (conf.sock = r.want /\ (live = r.want \/ faults > 0))
  /\ conf.bysock /\ r.sock # "yes" => conf.sock = {} /\ live = Configured(conf)
  /\ r.pc \in {"verify"} \cup Settling => r.new \in live
  /\ conf.bysock /\ r.want # {} /\ r.pc \in Back \ {"preclear"} =>
        (conf.sock = {} /\ live = Configured(conf)) \/ r.new \in live
  /\ r.pc \in {"rsock", "rload"} => conf.drop = r.snap
  /\ r.pc = "rsock" => conf.bysock
  /\ r.pc = "rload" /\ conf.bysock => faults > 1 \/ (conf.sock = {} /\ live = Configured(conf))
  /\ r.restored /\ r.want # {} =>
        /\ conf.drop = r.snap
        /\ (conf.bysock /\ faults > 1)
           \/ (live = Configured(conf) /\ (conf.bysock => conf.sock = {}))
  /\ r.complete /\ r.want # {} =>
        live = Configured(conf) /\ (conf.bysock => conf.sock = {})

\* The rules of both ports, and the record.
WallsInv(o) ==
  LET r == op[o] IN
  /\ ~r.committed \/ r.proved => AllAdmit(r.old)
  /\ r.pc \in Steps => \A w \in Walls :
        /\ r.before.allow[w] = (IF w \in r.added \cup r.overlooked THEN allow[w] \ {r.new}
                               ELSE allow[w]) \cup {r.old}
        /\ w \in r.added \cup r.overlooked => r.new \notin r.before.allow[w]
  /\ r.pc = "open" => \A w \in Walls \ r.todo : r.new \in allow[w]
  /\ r.pc = "snapshot" \/ (r.want # {} /\ ~(r.complete /\ r.pc \in {"cleanup"} \cup Over)) =>
        AllAdmit(r.new)
  /\ r.pc \in {"unopen", "revert", "cleanup"} => r.todo \subseteq r.added
  /\ ~r.committed => record = r.old
  /\ r.complete /\ r.pc = "cleanup" => record = r.old

\* Steps that only an upset leads to, and what a single one leaves.
UpsetInv(o) ==
  LET r == op[o] IN
  /\ r.pc \in Steps \ {"connect"} /\ ~r.ctl => faults > 0
  /\ r.spoilt \/ r.pc = "reopen" => faults > 0
  /\ conf.bysock /\ r.want # {} /\ r.pc \in Back => faults > 0
  /\ r.pc = "unreopen" => faults > 1
  /\ r.pc = "reopen" /\ faults <= 1 => /\ Stays(r.new)
                                       /\ \A w \in Walls \ r.todo : r.old \in allow[w]
  /\ r.committed /\ r.pc \in Back \ {"reopen"} /\ faults <= 1 =>
        AllAdmit(r.old) \/ (Stays(r.new) /\ ~r.ctl /\ ~r.fall)

\* The ways in after at most one upset, now and after a reboot.
SafeInv(o) ==
  LET r == op[o] IN
  faults <= 1 => \/ AllAdmit(r.old) /\ Stays(r.old)
                 \/ AllAdmit(r.new) /\ Stays(r.new)
                 \/ AllAdmit(r.old) /\ AllAdmit(r.new) /\ r.want # {}

CallsInv(o) ==
  TypeOK /\ CallInv(o) /\ FilesInv(o) /\ WallsInv(o) /\ UpsetInv(o) /\ SafeInv(o)

-----------------------------------------------------------------------------
(* Every step of the call keeps the invariant.                              *)

\* What a step leaves of the call's record.
SamePorts(r, s) ==
  s.old = r.old /\ s.new = r.new /\ s.before = r.before /\ s.snap = r.snap /\ s.want = r.want
SameRules(r, s) == s.added = r.added /\ s.overlooked = r.overlooked /\ s.spoilt = r.spoilt
SameSession(r, s) == s.sock = r.sock /\ s.ctl = r.ctl /\ s.fall = r.fall /\ s.via = r.via
SameStanding(r, s) ==
  /\ s.committed = r.committed /\ s.restored = r.restored
  /\ s.proved = r.proved /\ s.complete = r.complete
Alike(r, s) == SamePorts(r, s) /\ SameRules(r, s) /\ SameSession(r, s) /\ SameStanding(r, s)

LEMMA GoesOn ==
    ASSUME TypeOK, NEW o \in Ops, NEW pc \in Steps \cup Closed, Go(o, pc)
    PROVE  Alike(op[o], op'[o]) /\ op'[o].pc = pc /\ op'[o].todo = op[o].todo
<1>1. op[o] \in OpType
      BY DEF TypeOK
<1>2. op'[o] = [op[o] EXCEPT !.pc = pc]
      BY GoIs
<1> QED BY <1>1, <1>2 DEF OpType, Alike, SamePorts, SameRules, SameSession, SameStanding

LEMMA RaisedOn ==
    ASSUME TypeOK, NEW o \in Ops, Raised(o)
    PROVE  /\ Alike(op[o], op'[o]) /\ op'[o].todo = op[o].todo
           /\ \/ op'[o].pc = "preclear" /\ op[o].sock = "yes"
              \/ op'[o].pc = "fallback" /\ op[o].sock = "no"
              \/ op'[o].pc = "broken" /\ op[o].sock = "unbound"
<1>1. op[o].sock \in {"unbound", "yes", "no"}
      BY DEF TypeOK, OpType
<1> QED BY <1>1, GoesOn DEF Raised, Steps, Closed

LEMMA NextSessionOn ==
    ASSUME TypeOK, NEW o \in Ops, NextSession(o)
    PROVE  /\ SamePorts(op[o], op'[o]) /\ SameRules(op[o], op'[o]) /\ SameStanding(op[o], op'[o])
           /\ op'[o].sock = op[o].sock /\ op'[o].ctl = op[o].ctl /\ op'[o].fall = op[o].fall
           /\ \/ op'[o].pc = "rfile" /\ op'[o].via = "fall" /\ op[o].fall
              \/ /\ op'[o].pc = "rverify" /\ op'[o].via = op[o].via
                 /\ ~(op[o].via = "ctl" /\ op[o].fall)
<1>1. op[o] \in OpType
      BY DEF TypeOK
<1>2. CASE /\ op[o].via = "ctl" /\ op[o].fall
            /\ op'[o] = [op[o] EXCEPT !.via = "fall", !.pc = "rfile"]
  <2>1. op'[o].via = "fall" /\ op'[o].pc = "rfile"
        BY <1>1, <1>2 DEF OpType
  <2>3. op'[o].fall = op[o].fall
        BY <1>1, <1>2 DEF OpType
  <2>2. /\ SamePorts(op[o], op'[o]) /\ SameRules(op[o], op'[o]) /\ SameStanding(op[o], op'[o])
        /\ op'[o].sock = op[o].sock /\ op'[o].ctl = op[o].ctl
        BY <1>1, <1>2 DEF OpType, SamePorts, SameRules, SameStanding
  <2> QED BY <1>2, <2>1, <2>2, <2>3
<1>3. CASE /\ ~(op[o].via = "ctl" /\ op[o].fall)
            /\ op'[o] = [op[o] EXCEPT !.pc = "rverify"]
      BY <1>1, <1>3 DEF OpType, SamePorts, SameRules, SameStanding
<1> QED BY <1>2, <1>3, NextSessionIs

\* rec: the call as the closing of the old port left it.
LEMMA RecoverOn ==
    ASSUME TypeOK, NEW o \in Ops, NEW rec \in OpType, RecoverWith(o, rec),
           rec.added = op[o].added
    PROVE  /\ SamePorts(rec, op'[o]) /\ SameSession(rec, op'[o]) /\ SameStanding(rec, op'[o])
           /\ op'[o].added = op[o].added /\ op'[o].overlooked = rec.overlooked
           /\ ~op'[o].spoilt /\ op'[o].todo = Walls
           /\ \/ op'[o].pc = "reopen"
              \/ op'[o].pc = "fallback" /\ Walls = {}
<1>1. op[o] \in OpType
      BY DEF TypeOK
<1>2. PICK pc \in {"fallback", "reopen"} :
         /\ op'[o] = [rec EXCEPT !.todo = Walls, !.added = op[o].added, !.spoilt = FALSE, !.pc = pc]
         /\ pc = "fallback" <=> Walls = {}
      BY RecoverIs
<1> QED BY <1>1, <1>2 DEF OpType, SamePorts, SameSession, SameStanding

LEMMA RuleSet ==
    ASSUME TypeOK, NEW w \in Walls, NEW ports, SetAllow(w, ports)
    PROVE  allow'[w] = ports /\ \A v \in Walls \ {w} : allow'[v] = allow[v]
BY DEF TypeOK, SetAllow

\* The files and listeners as they were found.
LEMMA FoundAgain ==
    ASSUME NEW o, conf.drop = op[o].snap, conf.bysock => conf.sock = {}
    PROVE  Configured(conf) = Found(o)
BY DEF Configured, Found

\* Between the snapshot and the end sshd's files name the old or the new port.
LEMMA OneServed ==
    ASSUME NEW o, FilesInv(o), op[o].want # {}
    PROVE  op[o].old \in Configured(conf) \/ op[o].new \in Configured(conf)
<1>1. CASE conf.bysock
      BY <1>1 DEF FilesInv, Found, Configured
<1>2. CASE ~conf.bysock
      BY <1>2 DEF FilesInv, Found, Configured
<1> QED BY <1>1, <1>2

\* From the commit on sshd is on the new port and stays there.
LEMMA SettledServes ==
    ASSUME NEW o, CallInv(o), FilesInv(o), op[o].pc \in Settling
    PROVE  Stays(op[o].new)
BY DEF CallInv, FilesInv, Settling, Stays, Configured

\* A restored host listens on the old port, now and after a reboot.
LEMMA RestoredServes ==
    ASSUME NEW o, FilesInv(o), op[o].restored, op[o].complete \/ ~(faults > 1)
    PROVE  Stays(op[o].old)
<1>1. CASE op[o].want = {}
      BY <1>1 DEF FilesInv, Stays
<1>2. CASE op[o].want # {}
      BY <1>2, FoundAgain DEF FilesInv, Stays
<1> QED BY <1>1, <1>2

LEMMA BeginKeeps ==
    ASSUME NEW o \in Ops, CallsInv(o), NEW p \in Ports, Begin(o, p)
    PROVE  CallInv(o)' /\ FilesInv(o)' /\ WallsInv(o)' /\ UpsetInv(o)' /\ SafeInv(o)'
<1> DEFINE r == op[o]
           s == op'[o]
<1> USE DEF Early, Onward, Settling, Back, Undoing, Ending, Over, Closed, Steps,
            Alike, SamePorts, SameRules, SameSession, SameStanding
<1>0. r \in OpType /\ TypeOK
      BY DEF CallsInv, TypeOK
<1>1. /\ host' = host /\ record' = record /\ faults' = faults
      /\ r.pc = "idle" /\ s.pc = "connect" /\ s.old = record /\ s.new = p /\ p # record
      /\ s.before.live = live /\ s.before.allow = allow
      /\ s.snap = r.snap /\ s.want = r.want
      /\ SameRules(r, s) /\ SameSession(r, s) /\ SameStanding(r, s)
  <2>1. s = [r EXCEPT !.pc = "connect", !.old = record, !.new = p,
                      !.before = [live |-> live, allow |-> allow]]
        BY <1>0 DEF Begin, TypeOK
  <2>2. s.pc = "connect" /\ s.old = record /\ s.new = p
        BY <1>0, <2>1 DEF OpType
  <2>3. s.before.live = live /\ s.before.allow = allow
        BY <1>0, <2>1 DEF OpType
  <2>4. /\ s.snap = r.snap /\ s.want = r.want
        /\ SameRules(r, s) /\ SameSession(r, s) /\ SameStanding(r, s)
        BY <1>0, <2>1 DEF OpType
  <2> QED BY <2>2, <2>3, <2>4 DEF Begin, At
<1>2. CallInv(o)'
      BY <1>0, <1>1 DEF CallsInv, CallInv, host
<1>3. FilesInv(o)'
      BY <1>0, <1>1 DEF CallsInv, CallInv, FilesInv, Found, WallsInv, host
<1>4. WallsInv(o)'
      BY <1>0, <1>1 DEF CallsInv, CallInv, FilesInv, WallsInv, AllAdmit, host
<1>5. UpsetInv(o)'
      BY <1>0, <1>1 DEF CallsInv, CallInv, FilesInv, WallsInv, UpsetInv, AllAdmit, Stays, TypeOK, host
<1>6. SafeInv(o)'
      BY <1>0, <1>1 DEF CallsInv, CallInv, FilesInv, WallsInv, UpsetInv, SafeInv, AllAdmit, Stays, TypeOK, host
<1> QED BY <1>2, <1>3, <1>4, <1>5, <1>6

LEMMA ConnectKeeps ==
    ASSUME NEW o \in Ops, CallsInv(o), Connect(o)
    PROVE  CallInv(o)' /\ FilesInv(o)' /\ WallsInv(o)' /\ UpsetInv(o)' /\ SafeInv(o)'
<1> DEFINE r == op[o]
           s == op'[o]
<1> USE DEF Early, Onward, Settling, Back, Undoing, Ending, Over, Closed, Steps,
            Alike, SamePorts, SameRules, SameSession, SameStanding
<1>0. r \in OpType /\ TypeOK
      BY DEF CallsInv, TypeOK
<1>1. /\ host' = host /\ record' = record
      /\ faults' = faults \/ faults' = faults + 1
      /\ r.pc = "connect" /\ SamePorts(r, s) /\ SameRules(r, s) /\ SameStanding(r, s)
      /\ s.sock = r.sock /\ s.fall = r.fall /\ s.via = r.via
      /\ (s.pc = "preflight" /\ s.ctl) \/ s.pc = "failed"
  <2> USE DEF Connect, Answer, Upset, Fine, At
  <2>1. CASE Becomes(o, [r EXCEPT !.pc = "preflight", !.ctl = TRUE])
    <3>1. s = [r EXCEPT !.pc = "preflight", !.ctl = TRUE]
          BY <1>0, <2>1 DEF Becomes, TypeOK
    <3> QED BY <1>0, <3>1 DEF OpType
  <2>2. CASE Go(o, "failed")
        BY <1>0, <2>2, GoesOn
  <2> QED BY <2>1, <2>2
<1>2. CallInv(o)'
      BY <1>0, <1>1 DEF CallsInv, CallInv, host
<1>3. FilesInv(o)'
      BY <1>0, <1>1 DEF CallsInv, CallInv, FilesInv, Found, host
<1>4. WallsInv(o)'
      BY <1>0, <1>1 DEF CallsInv, CallInv, FilesInv, WallsInv, AllAdmit, host
<1>5. UpsetInv(o)'
      BY <1>0, <1>1 DEF CallsInv, CallInv, FilesInv, WallsInv, UpsetInv, AllAdmit, Stays, TypeOK, host
<1>6. SafeInv(o)'
      BY <1>0, <1>1 DEF CallsInv, CallInv, FilesInv, WallsInv, UpsetInv, SafeInv, AllAdmit, Stays, TypeOK, host
<1> QED BY <1>2, <1>3, <1>4, <1>5, <1>6

LEMMA PreflightKeeps ==
    ASSUME NEW o \in Ops, CallsInv(o), Preflight(o)
    PROVE  CallInv(o)' /\ FilesInv(o)' /\ WallsInv(o)' /\ UpsetInv(o)' /\ SafeInv(o)'
<1> DEFINE r == op[o]
           s == op'[o]
<1> USE DEF Early, Onward, Settling, Back, Undoing, Ending, Over, Closed, Steps,
            Alike, SamePorts, SameRules, SameSession, SameStanding
<1>0. r \in OpType /\ TypeOK
      BY DEF CallsInv, TypeOK
<1>1. /\ host' = host /\ record' = record
      /\ faults' = faults \/ faults' = faults + 1
      /\ r.pc = "preflight" /\ Alike(r, s)
      /\ \/ s.todo = Walls /\ s.pc = "open"
         \/ Walls = {} /\ s.pc = "snapshot"
         \/ s.pc = "failed"
  <2> USE DEF Preflight, Works, Fails, Upset, Fine, At
  <2> DEFINE next == IF Walls = {} THEN "snapshot" ELSE "open"
  <2>1. CASE Becomes(o, [r EXCEPT !.todo = Walls, !.pc = next])
    <3>1. s = [r EXCEPT !.todo = Walls, !.pc = next]
          BY <1>0, <2>1 DEF Becomes, TypeOK
    <3> QED BY <1>0, <3>1 DEF OpType
  <2>2. CASE Go(o, "failed")
        BY <1>0, <2>2, GoesOn
  <2> QED BY <2>1, <2>2
<1>2. CallInv(o)'
      BY <1>0, <1>1 DEF CallsInv, CallInv, host
<1>3. FilesInv(o)'
      BY <1>0, <1>1 DEF CallsInv, CallInv, FilesInv, Found, host
<1>4. WallsInv(o)'
      BY <1>0, <1>1 DEF CallsInv, CallInv, FilesInv, WallsInv, AllAdmit, host
<1>5. UpsetInv(o)'
      BY <1>0, <1>1 DEF CallsInv, CallInv, FilesInv, WallsInv, UpsetInv, AllAdmit, Stays, TypeOK, host
<1>6. SafeInv(o)'
      BY <1>0, <1>1 DEF CallsInv, CallInv, FilesInv, WallsInv, UpsetInv, SafeInv, AllAdmit, Stays, TypeOK, host
<1> QED BY <1>2, <1>3, <1>4, <1>5, <1>6

LEMMA OpenNewKeeps ==
    ASSUME NEW o \in Ops, CallsInv(o), NEW w \in Walls, OpenNew(o, w)
    PROVE  CallInv(o)' /\ FilesInv(o)' /\ WallsInv(o)' /\ UpsetInv(o)' /\ SafeInv(o)'
<1> DEFINE r == op[o]
           s == op'[o]
<1> USE DEF Early, Onward, Settling, Back, Undoing, Ending, Over, Closed, Steps,
            Alike, SamePorts, SameRules, SameSession, SameStanding
<1>0. r \in OpType /\ TypeOK
      BY DEF CallsInv, TypeOK
<1> DEFINE left == r.todo \ {w}
           mine == r.added \cup AddedBy(o, w)
           next == IF left = {} THEN "snapshot" ELSE "open"
           undo == IF r.added = {} THEN "rverify" ELSE "unopen"
<1>1. /\ conf' = conf /\ live' = live /\ record' = record
      /\ faults' = faults \/ faults' = faults + 1
      /\ r.pc = "open" /\ w \in r.todo
      BY DEF OpenNew, Works, Fails, Upset, Fine, At
<1>2. /\ SamePorts(r, s) /\ SameSession(r, s) /\ s.spoilt = r.spoilt
      /\ s.committed = r.committed /\ s.proved = r.proved /\ s.complete = r.complete
      /\ \/ /\ allow'[w] = allow[w] \cup {r.new} /\ \A v \in Walls \ {w} : allow'[v] = allow[v]
            /\ s.todo = left /\ s.added = mine /\ s.pc = next /\ s.restored = r.restored
            /\ s.overlooked = r.overlooked
         \/ /\ \/ /\ \A v \in Walls : allow'[v] = allow[v]
                  /\ s.added = r.added /\ s.overlooked = r.overlooked
               \/ /\ r.new \notin allow[w] /\ allow'[w] = allow[w] \cup {r.new}
                  /\ \A v \in Walls \ {w} : allow'[v] = allow[v]
                  /\ s.added \cup s.overlooked = r.added \cup r.overlooked \cup {w}
                  /\ r.added \subseteq s.added
            /\ s.todo = r.added /\ s.restored /\ s.pc = undo
         \/ /\ \/ allow' = allow
               \/ allow'[w] = allow[w] \cup {r.new} /\ \A v \in Walls \ {w} : allow'[v] = allow[v]
            /\ s.added = r.added /\ s.pc = "failed" /\ s.restored = r.restored
            /\ s.overlooked = r.overlooked
  <2>1. CASE /\ SetAllow(w, allow[w] \cup {r.new})
             /\ Becomes(o, [r EXCEPT !.todo = left, !.added = mine, !.pc = next])
    <3>1. s = [r EXCEPT !.todo = left, !.added = mine, !.pc = next]
          BY <1>0, <2>1 DEF Becomes, TypeOK
    <3>2. /\ SamePorts(r, s) /\ SameSession(r, s) /\ SameStanding(r, s) /\ s.spoilt = r.spoilt
          /\ s.todo = left /\ s.added = mine /\ s.pc = next /\ s.overlooked = r.overlooked
          BY <1>0, <3>1 DEF OpType
    <3> QED BY <1>0, <2>1, <3>2, RuleSet
  <2>2. ASSUME NEW got \in SUBSET AddedBy(o, w), NEW seen \in SUBSET got,
               SetAllow(w, IF got = {} THEN allow[w] ELSE allow[w] \cup {r.new}),
               Becomes(o, [r EXCEPT !.todo = r.added, !.restored = TRUE,
                  !.added = r.added \cup seen, !.overlooked = r.overlooked \cup (got \ seen),
                  !.pc = undo])
        PROVE  /\ SamePorts(r, s) /\ SameSession(r, s) /\ s.spoilt = r.spoilt
               /\ s.committed = r.committed /\ s.proved = r.proved /\ s.complete = r.complete
               /\ \/ /\ \A v \in Walls : allow'[v] = allow[v]
                     /\ s.added = r.added /\ s.overlooked = r.overlooked
                  \/ /\ r.new \notin allow[w] /\ allow'[w] = allow[w] \cup {r.new}
                     /\ \A v \in Walls \ {w} : allow'[v] = allow[v]
                     /\ s.added \cup s.overlooked = r.added \cup r.overlooked \cup {w}
                     /\ r.added \subseteq s.added
               /\ s.todo = r.added /\ s.restored /\ s.pc = undo
    <3> DEFINE a == r.added \cup seen
               k == r.overlooked \cup (got \ seen)
    <3>1. s = [r EXCEPT !.todo = r.added, !.restored = TRUE, !.added = a,
                        !.overlooked = k, !.pc = undo]
          BY <1>0, <2>2 DEF Becomes, TypeOK
    <3> HIDE DEF a, k, undo
    <3>2. /\ SamePorts(r, s) /\ SameSession(r, s) /\ s.spoilt = r.spoilt
          /\ s.committed = r.committed /\ s.proved = r.proved /\ s.complete = r.complete
          BY <1>0, <3>1 DEF OpType
    <3>3. s.todo = r.added /\ s.restored /\ s.pc = undo /\ s.added = a /\ s.overlooked = k
          BY <1>0, <3>1 DEF OpType
    <3>4. got = {} \/ (got = {w} /\ r.new \notin allow[w])
          BY DEF AddedBy
    <3>5. CASE got = {}
      <4>1. a = r.added /\ k = r.overlooked
            BY <3>5 DEF a, k
      <4>2. \A v \in Walls : allow'[v] = allow[v]
            BY <1>0, <2>2, <3>5, RuleSet
      <4> QED BY <3>2, <3>3, <4>1, <4>2
    <3>6. CASE got = {w} /\ r.new \notin allow[w]
      <4>1. a \cup k = r.added \cup r.overlooked \cup {w} /\ r.added \subseteq a
            BY <3>6 DEF a, k
      <4>2. /\ allow'[w] = allow[w] \cup {r.new}
            /\ \A v \in Walls \ {w} : allow'[v] = allow[v]
        <5>1. SetAllow(w, allow[w] \cup {r.new})
              BY <2>2, <3>6
        <5> QED BY <1>0, <5>1, RuleSet
      <4> QED BY <3>2, <3>3, <3>6, <4>1, <4>2
    <3> QED BY <3>4, <3>5, <3>6
  <2>3. CASE /\ UNCHANGED allow \/ SetAllow(w, allow[w] \cup {r.new})
             /\ Go(o, "failed")
        BY <1>0, <2>3, GoesOn, RuleSet
  <2> QED BY <2>1, <2>2, <2>3 DEF OpenNew, Works, Fails
<1> HIDE DEF mine, next, undo
<1>3. /\ next = "open" \/ (next = "snapshot" /\ left = {})
      /\ undo = "unopen" \/ undo = "rverify"
      /\ mine = r.added \cup (IF r.new \in allow[w] THEN {} ELSE {w})
      BY DEF mine, next, undo, AddedBy
<1>4. /\ s.pc \in {"open", "snapshot", "unopen", "rverify", "failed"}
      /\ s.pc \in {"open", "snapshot"} => ~s.restored
      /\ s.pc \in {"rverify", "unopen"} => s.restored
      /\ s.restored => s.pc \in {"unopen", "rverify"}
      BY <1>1, <1>2, <1>3 DEF CallsInv, CallInv
<1>5. /\ conf' = conf /\ SamePorts(r, s) /\ SameSession(r, s)
      /\ s.committed = r.committed /\ s.proved = r.proved /\ s.complete = r.complete
      BY <1>1, <1>2
<1>6. CallInv(o)'
      BY <1>0, <1>1, <1>4, <1>5 DEF CallsInv, CallInv
<1>7. FilesInv(o)'
      BY <1>0, <1>1, <1>2, <1>3 DEF CallsInv, CallInv, FilesInv, Found
<1>8. WallsInv(o)'
      BY <1>0, <1>1, <1>2, <1>3 DEF CallsInv, CallInv, FilesInv, WallsInv, AllAdmit
<1>9. UpsetInv(o)'
      BY <1>0, <1>1, <1>2, <1>3 DEF CallsInv, CallInv, FilesInv, WallsInv, UpsetInv, AllAdmit, Stays, TypeOK
<1>10. SafeInv(o)'
      BY <1>0, <1>1, <1>2, <1>3 DEF CallsInv, CallInv, FilesInv, WallsInv, UpsetInv, SafeInv, AllAdmit, Stays, TypeOK
<1> QED BY <1>6, <1>7, <1>8, <1>9, <1>10

LEMMA UnopenKeeps ==
    ASSUME NEW o \in Ops, CallsInv(o), NEW w \in Walls, Unopen(o, w)
    PROVE  CallInv(o)' /\ FilesInv(o)' /\ WallsInv(o)' /\ UpsetInv(o)' /\ SafeInv(o)'
<1> DEFINE r == op[o]
           s == op'[o]
<1> USE DEF Early, Onward, Settling, Back, Undoing, Ending, Over, Closed, Steps,
            Alike, SamePorts, SameRules, SameSession, SameStanding
<1>0. r \in OpType /\ TypeOK
      BY DEF CallsInv, TypeOK
<1> DEFINE left == r.todo \ {w}
           next == IF left = {} THEN "rverify" ELSE "unopen"
<1>1. /\ conf' = conf /\ live' = live /\ record' = record
      /\ faults' = faults \/ faults' = faults + 1
      /\ r.pc = "unopen" /\ w \in r.todo
      BY DEF Unopen, Works, Fails, Upset, Fine, At
<1>2. /\ SamePorts(r, s) /\ SameSession(r, s) /\ SameStanding(r, s) /\ s.spoilt = r.spoilt
      /\ s.todo = left /\ s.pc = next
      /\ \/ /\ allow'[w] = allow[w] \ {r.new} /\ \A v \in Walls \ {w} : allow'[v] = allow[v]
            /\ s.added = r.added \ {w} \/ s.added = r.added
         \/ allow' = allow /\ s.added = r.added
      /\ s.overlooked = r.overlooked
  <2>1. CASE /\ SetAllow(w, allow[w] \ {r.new})
             /\ Becomes(o, [r EXCEPT !.todo = left, !.added = r.added \ {w}, !.pc = next])
    <3>1. s = [r EXCEPT !.todo = left, !.added = r.added \ {w}, !.pc = next]
          BY <1>0, <2>1 DEF Becomes, TypeOK
    <3>2. /\ SamePorts(r, s) /\ SameSession(r, s) /\ SameStanding(r, s) /\ s.spoilt = r.spoilt
          /\ s.todo = left /\ s.added = r.added \ {w} /\ s.pc = next /\ s.overlooked = r.overlooked
          BY <1>0, <3>1 DEF OpType
    <3> QED BY <1>0, <2>1, <3>2, RuleSet
  <2>2. CASE /\ UNCHANGED allow \/ SetAllow(w, allow[w] \ {r.new})
             /\ Becomes(o, [r EXCEPT !.todo = left, !.pc = next])
    <3>1. s = [r EXCEPT !.todo = left, !.pc = next]
          BY <1>0, <2>2 DEF Becomes, TypeOK
    <3>2. Alike([r EXCEPT !.todo = left], s) /\ SameRules(r, s) /\ SamePorts(r, s)
          /\ SameSession(r, s) /\ SameStanding(r, s) /\ s.todo = left /\ s.pc = next
          BY <1>0, <3>1 DEF OpType
    <3> QED BY <1>0, <2>2, <3>2, RuleSet
  <2> QED BY <2>1, <2>2 DEF Unopen, Works, Fails
<1> HIDE DEF next
<1>3. next \in {"rverify", "unopen"}
      BY DEF next
<1>4. /\ conf' = conf /\ SamePorts(r, s) /\ SameSession(r, s) /\ SameStanding(r, s)
      /\ s.pc \in {"rverify", "unopen"}
      BY <1>1, <1>2, <1>3
<1>5. CallInv(o)'
      BY <1>0, <1>1, <1>4 DEF CallsInv, CallInv
<1>6. FilesInv(o)'
      BY <1>0, <1>1, <1>2, <1>3 DEF CallsInv, CallInv, FilesInv, Found
<1>7. WallsInv(o)'
      BY <1>0, <1>1, <1>2, <1>3 DEF CallsInv, CallInv, FilesInv, WallsInv, AllAdmit
<1>8. UpsetInv(o)'
      BY <1>0, <1>1, <1>2, <1>3 DEF CallsInv, CallInv, FilesInv, WallsInv, UpsetInv, AllAdmit, Stays, TypeOK
<1>9. SafeInv(o)'
      BY <1>0, <1>1, <1>2, <1>3 DEF CallsInv, CallInv, FilesInv, WallsInv, UpsetInv, SafeInv, AllAdmit, Stays, TypeOK
<1> QED BY <1>5, <1>6, <1>7, <1>8, <1>9

LEMMA SnapshotKeeps ==
    ASSUME NEW o \in Ops, CallsInv(o), Snapshot(o)
    PROVE  CallInv(o)' /\ FilesInv(o)' /\ WallsInv(o)' /\ UpsetInv(o)' /\ SafeInv(o)'
<1> DEFINE r == op[o]
           s == op'[o]
<1> USE DEF Early, Onward, Settling, Back, Undoing, Ending, Over, Closed, Steps,
            Alike, SamePorts, SameRules, SameSession, SameStanding
<1>0. r \in OpType /\ TypeOK
      BY DEF CallsInv, TypeOK
<1>1. /\ host' = host /\ record' = record
      /\ faults' = faults \/ faults' = faults + 1
      /\ r.pc = "snapshot"
      /\ \/ /\ s.pc = "write" /\ s.snap = conf.drop /\ s.want = {r.old, r.new}
            /\ s.old = r.old /\ s.new = r.new /\ s.before = r.before
            /\ SameRules(r, s) /\ SameSession(r, s) /\ SameStanding(r, s)
         \/ s.pc = "failed" /\ Alike(r, s)
  <2> USE DEF Snapshot, Works, Fails, Upset, Fine, At
  <2>1. CASE Becomes(o, [r EXCEPT !.snap = conf.drop, !.pc = "write", !.want = {r.old, r.new}])
    <3>1. s = [r EXCEPT !.snap = conf.drop, !.pc = "write", !.want = {r.old, r.new}]
          BY <1>0, <2>1 DEF Becomes, TypeOK
    <3>2. /\ s.pc = "write" /\ s.snap = conf.drop /\ s.want = {r.old, r.new}
          /\ s.old = r.old /\ s.new = r.new /\ s.before = r.before
          /\ SameRules(r, s) /\ SameSession(r, s) /\ SameStanding(r, s)
          BY <1>0, <3>1 DEF OpType
    <3> QED BY <3>2
  <2>2. CASE Go(o, "failed")
        BY <1>0, <2>2, GoesOn
  <2> QED BY <2>1, <2>2
<1>2. CallInv(o)'
      BY <1>0, <1>1 DEF CallsInv, CallInv, host
<1>3. FilesInv(o)'
      BY <1>0, <1>1 DEF CallsInv, CallInv, FilesInv, Found, Configured, host
<1>4. WallsInv(o)'
      BY <1>0, <1>1 DEF CallsInv, CallInv, FilesInv, WallsInv, AllAdmit, host
<1>5. UpsetInv(o)'
      BY <1>0, <1>1 DEF CallsInv, CallInv, FilesInv, WallsInv, UpsetInv, AllAdmit, Stays, TypeOK, host
<1>6. SafeInv(o)'
      BY <1>0, <1>1 DEF CallsInv, CallInv, FilesInv, WallsInv, UpsetInv, SafeInv, AllAdmit, Stays, TypeOK, host
<1> QED BY <1>2, <1>3, <1>4, <1>5, <1>6

LEMMA WriteKeeps ==
    ASSUME NEW o \in Ops, CallsInv(o), Write(o)
    PROVE  CallInv(o)' /\ FilesInv(o)' /\ WallsInv(o)' /\ UpsetInv(o)' /\ SafeInv(o)'
<1> DEFINE r == op[o]
           s == op'[o]
<1> USE DEF Early, Onward, Settling, Back, Undoing, Ending, Over, Closed, Steps,
            Alike, SamePorts, SameRules, SameSession, SameStanding
<1>0. r \in OpType /\ TypeOK
      BY DEF CallsInv, TypeOK
<1>1. /\ live' = live /\ allow' = allow /\ record' = record
      /\ faults' = faults \/ faults' = faults + 1
      /\ r.pc = "write" /\ Alike(r, s)
      BY <1>0, GoesOn, RaisedOn DEF Write, Works, Fails, Upset, Fine, At
<1>2. /\ conf'.main = conf.main /\ conf'.bysock = conf.bysock /\ conf'.sock = conf.sock
      /\ conf'.drop = conf.drop \/ conf'.drop = r.want
      BY <1>0 DEF Write, Works, Fails, TypeOK
<1>3. \/ /\ conf'.drop = r.want
         /\ \/ s.pc = "sockq" /\ r.sock = "unbound"
            \/ s.pc = "socket" /\ r.sock = "yes"
            \/ s.pc = "reload" /\ r.sock = "no"
      \/ s.pc = "preclear" /\ r.sock = "yes"
      \/ s.pc = "fallback" /\ r.sock = "no"
      \/ s.pc = "broken"
  <2>1. CASE conf' = [conf EXCEPT !.drop = r.want] /\ ~Raised(o)
    <3>1. conf'.drop = r.want
          BY <1>0, <2>1 DEF TypeOK
    <3>2. r.sock \in {"unbound", "yes", "no"}
          BY <1>0 DEF OpType
    <3> QED BY <1>0, <2>1, <3>1, <3>2, GoesOn DEF Write, Works
  <2>2. CASE Raised(o)
        BY <1>0, <2>2, RaisedOn
  <2> QED BY <2>1, <2>2 DEF Write, Works
<1>20. s.pc \in Back => faults' > 0
  <2>1. faults' = faults + 1 \/ (faults' = faults /\ ~Session(o)) \/ s.pc \notin Back
        BY <1>0, GoesOn DEF Write, Works, Fails, Upset, Fine
  <2>2. ~Session(o) => faults > 0
        BY <1>1 DEF CallsInv, CallInv, UpsetInv, Session
  <2>3. faults \in Nat
        BY <1>0 DEF TypeOK
  <2> QED BY <2>1, <2>2, <2>3
<1>4. CallInv(o)'
      BY <1>0, <1>1, <1>2, <1>3, <1>20 DEF CallsInv, CallInv
<1>5. FilesInv(o)'
      BY <1>0, <1>1, <1>2, <1>3 DEF CallsInv, CallInv, FilesInv, Found, TypeOK, Configured
<1>6. WallsInv(o)'
      BY <1>0, <1>1, <1>2, <1>3 DEF CallsInv, CallInv, FilesInv, WallsInv, AllAdmit
<1>7. UpsetInv(o)'
      BY <1>0, <1>1, <1>2, <1>3, <1>20 DEF CallsInv, CallInv, FilesInv, WallsInv, UpsetInv, AllAdmit, Stays, TypeOK
<1>8. SafeInv(o)'
      BY <1>0, <1>1, <1>2, <1>3 DEF CallsInv, CallInv, FilesInv, WallsInv, UpsetInv, SafeInv, AllAdmit, Stays, TypeOK
<1> QED BY <1>4, <1>5, <1>6, <1>7, <1>8

LEMMA SocketAskedKeeps ==
    ASSUME NEW o \in Ops, CallsInv(o), SocketAsked(o)
    PROVE  CallInv(o)' /\ FilesInv(o)' /\ WallsInv(o)' /\ UpsetInv(o)' /\ SafeInv(o)'
<1> DEFINE r == op[o]
           s == op'[o]
<1> USE DEF Early, Onward, Settling, Back, Undoing, Ending, Over, Closed, Steps,
            Alike, SamePorts, SameRules, SameSession, SameStanding
<1>0. r \in OpType /\ TypeOK
      BY DEF CallsInv, TypeOK
<1>1. /\ host' = host /\ record' = record
      /\ faults' = faults \/ faults' = faults + 1
      /\ r.pc = "sockq" /\ SamePorts(r, s) /\ SameRules(r, s) /\ SameStanding(r, s)
      /\ s.ctl = r.ctl /\ s.fall = r.fall /\ s.via = r.via
      /\ \/ s.sock = "yes" /\ s.pc = "socket" /\ conf.bysock
         \/ s.sock = "no" /\ s.pc = "reload" /\ (~conf.bysock \/ faults' = faults + 1)
         \/ s.sock = r.sock /\ s.pc = "preclear" /\ r.sock = "yes"
         \/ s.sock = r.sock /\ s.pc = "fallback" /\ r.sock = "no"
         \/ s.sock = r.sock /\ s.pc = "broken"
  <2> USE DEF SocketAsked, Works, Fails, Upset, Fine, At
  <2>1. CASE Becomes(o, [r EXCEPT !.sock = "yes", !.pc = "socket"]) /\ conf.bysock
    <3>1. s = [r EXCEPT !.sock = "yes", !.pc = "socket"]
          BY <1>0, <2>1 DEF Becomes, TypeOK
    <3> QED BY <1>0, <2>1, <3>1 DEF OpType
  <2>2. CASE /\ Becomes(o, [r EXCEPT !.sock = "no", !.pc = "reload"])
             /\ ~conf.bysock \/ faults' = faults + 1
    <3>1. s = [r EXCEPT !.sock = "no", !.pc = "reload"]
          BY <1>0, <2>2 DEF Becomes, TypeOK
    <3> QED BY <1>0, <2>2, <3>1 DEF OpType
  <2>3. CASE Raised(o)
        BY <1>0, <2>3, RaisedOn
  <2> QED BY <2>1, <2>2, <2>3
<1>20. s.pc \in Back => faults' > 0
  <2>1. faults' = faults + 1 \/ (faults' = faults /\ ~Session(o)) \/ s.pc \notin Back
    <3>1. CASE Fails(o, Raised(o), FALSE)
          BY <3>1 DEF Fails, Upset, Fine
    <3>2. CASE \/ Becomes(o, [r EXCEPT !.sock = "yes", !.pc = "socket"])
               \/ Becomes(o, [r EXCEPT !.sock = "no", !.pc = "reload"])
      <4>1. \/ s = [r EXCEPT !.sock = "yes", !.pc = "socket"]
            \/ s = [r EXCEPT !.sock = "no", !.pc = "reload"]
            BY <1>0, <3>2 DEF Becomes, TypeOK
      <4>2. s.pc \in {"socket", "reload"}
            BY <1>0, <4>1 DEF OpType
      <4> QED BY <4>2
    <3> QED BY <3>1, <3>2 DEF SocketAsked, Works
  <2>2. ~Session(o) => faults > 0
        BY <1>1 DEF CallsInv, CallInv, UpsetInv, Session
  <2>3. faults \in Nat
        BY <1>0 DEF TypeOK
  <2> QED BY <2>1, <2>2, <2>3
<1>2. CallInv(o)'
      BY <1>0, <1>1, <1>20 DEF CallsInv, CallInv, host, TypeOK
<1>3. FilesInv(o)'
      BY <1>0, <1>1, <1>20, SMTT(30) DEF CallsInv, CallInv, FilesInv, Found, host, TypeOK, Configured
<1>4. WallsInv(o)'
      BY <1>0, <1>1 DEF CallsInv, CallInv, FilesInv, WallsInv, AllAdmit, host
<1>5. UpsetInv(o)'
      BY <1>0, <1>1, <1>20 DEF CallsInv, CallInv, FilesInv, WallsInv, UpsetInv, AllAdmit, Stays, TypeOK, host
<1>6. SafeInv(o)'
      BY <1>0, <1>1 DEF CallsInv, CallInv, FilesInv, WallsInv, UpsetInv, SafeInv, AllAdmit, Stays, TypeOK, host
<1> QED BY <1>2, <1>3, <1>4, <1>5, <1>6

LEMMA ListenBySocketKeeps ==
    ASSUME NEW o \in Ops, CallsInv(o), ListenBySocket(o)
    PROVE  CallInv(o)' /\ FilesInv(o)' /\ WallsInv(o)' /\ UpsetInv(o)' /\ SafeInv(o)'
<1> DEFINE r == op[o]
           s == op'[o]
<1> USE DEF Early, Onward, Settling, Back, Undoing, Ending, Over, Closed, Steps,
            Alike, SamePorts, SameRules, SameSession, SameStanding
<1>0. r \in OpType /\ TypeOK
      BY DEF CallsInv, TypeOK
<1>1. /\ allow' = allow /\ record' = record
      /\ faults' = faults \/ faults' = faults + 1
      /\ r.pc = "socket" /\ Alike(r, s)
      BY <1>0, GoesOn, RaisedOn DEF ListenBySocket, Socket, Works, Fails, Upset, Fine, At
<1>2. /\ conf'.main = conf.main /\ conf'.bysock = conf.bysock /\ conf'.drop = conf.drop
      /\ conf'.sock = conf.sock \/ conf'.sock = r.want
      /\ live' = live \/ (live' = Configured(conf') /\ conf'.sock = r.want)
      /\ \/ s.pc = "reload" /\ conf'.sock = r.want /\ live' = Configured(conf')
         \/ s.pc = "preclear" /\ r.sock = "yes"
         \/ s.pc = "fallback" /\ r.sock = "no"
         \/ s.pc = "broken"
  <2> DEFINE wrote == conf' = [conf EXCEPT !.sock = r.want]
  <2>1. CASE wrote
        BY <1>0, <2>1, GoesOn, RaisedOn DEF ListenBySocket, Socket, Works, Fails, TypeOK
  <2>2. CASE conf' = conf /\ live' = live /\ Raised(o)
        BY <1>0, <2>2, RaisedOn
  <2> QED BY <2>1, <2>2 DEF ListenBySocket, Socket, Works, Fails
<1>20. s.pc \in Back => faults' > 0
  <2>1. faults' = faults + 1 \/ (faults' = faults /\ ~Session(o)) \/ s.pc \notin Back
        BY <1>0, GoesOn DEF ListenBySocket, Socket, Works, Fails, Upset, Fine
  <2>2. ~Session(o) => faults > 0
        BY <1>1 DEF CallsInv, CallInv, UpsetInv, Session
  <2>3. faults \in Nat
        BY <1>0 DEF TypeOK
  <2> QED BY <2>1, <2>2, <2>3
<1>3. CallInv(o)'
      BY <1>0, <1>1, <1>2, <1>20 DEF CallsInv, CallInv
<1>4. FilesInv(o)'
      BY <1>0, <1>1, <1>2, SMTT(30) DEF CallsInv, CallInv, FilesInv, Found, Configured, TypeOK
<1>5. WallsInv(o)'
      BY <1>0, <1>1, <1>2 DEF CallsInv, CallInv, FilesInv, WallsInv, AllAdmit
<1>6. UpsetInv(o)'
      BY <1>0, <1>1, <1>2, <1>20 DEF CallsInv, CallInv, FilesInv, WallsInv, UpsetInv, AllAdmit, Stays, TypeOK
<1>7. SafeInv(o)'
      BY <1>0, <1>1, <1>2 DEF CallsInv, CallInv, FilesInv, WallsInv, UpsetInv, SafeInv, AllAdmit, Stays, TypeOK
<1> QED BY <1>3, <1>4, <1>5, <1>6, <1>7

LEMMA ReloadKeeps ==
    ASSUME NEW o \in Ops, CallsInv(o), Reload(o)
    PROVE  CallInv(o)' /\ FilesInv(o)' /\ WallsInv(o)' /\ UpsetInv(o)' /\ SafeInv(o)'
<1> DEFINE r == op[o]
           s == op'[o]
<1> USE DEF Early, Onward, Settling, Back, Undoing, Ending, Over, Closed, Steps,
            Alike, SamePorts, SameRules, SameSession, SameStanding
<1>0. r \in OpType /\ TypeOK
      BY DEF CallsInv, TypeOK
<1>1. /\ conf' = conf /\ allow' = allow /\ record' = record
      /\ faults' = faults \/ faults' = faults + 1
      /\ r.pc = "reload" /\ Alike(r, s)
      /\ live' = live \/ (~conf.bysock /\ live' = Configured(conf))
      /\ \/ s.pc = "check"
         \/ s.pc = "preclear" /\ r.sock = "yes"
         \/ s.pc = "fallback" /\ r.sock = "no"
         \/ s.pc = "broken"
  <2> USE DEF Reload, Works, Fails, Upset, Fine, At, Reloaded
  <2>1. CASE Go(o, "check")
        BY <1>0, <2>1, GoesOn
  <2>2. CASE Raised(o)
        BY <1>0, <2>2, RaisedOn
  <2> QED BY <2>1, <2>2
<1>20. s.pc \in Back => faults' > 0
  <2>1. faults' = faults + 1 \/ (faults' = faults /\ ~Session(o)) \/ s.pc \notin Back
        BY <1>0, GoesOn DEF Reload, Works, Fails, Upset, Fine
  <2>2. ~Session(o) => faults > 0
        BY <1>1 DEF CallsInv, CallInv, UpsetInv, Session
  <2>3. faults \in Nat
        BY <1>0 DEF TypeOK
  <2> QED BY <2>1, <2>2, <2>3
<1>2. CallInv(o)'
      BY <1>0, <1>1, <1>20 DEF CallsInv, CallInv, TypeOK
<1>3. FilesInv(o)'
      BY <1>0, <1>1 DEF CallsInv, CallInv, FilesInv, Found, Configured, TypeOK
<1>4. WallsInv(o)'
      BY <1>0, <1>1 DEF CallsInv, CallInv, FilesInv, WallsInv, AllAdmit
<1>5. UpsetInv(o)'
      BY <1>0, <1>1, <1>20 DEF CallsInv, CallInv, FilesInv, WallsInv, UpsetInv, AllAdmit, Stays, TypeOK
<1>6. SafeInv(o)'
      BY <1>0, <1>1 DEF CallsInv, CallInv, FilesInv, WallsInv, UpsetInv, SafeInv, AllAdmit, Stays, TypeOK
<1> QED BY <1>2, <1>3, <1>4, <1>5, <1>6

LEMMA CheckListenersKeeps ==
    ASSUME NEW o \in Ops, CallsInv(o), CheckListeners(o)
    PROVE  CallInv(o)' /\ FilesInv(o)' /\ WallsInv(o)' /\ UpsetInv(o)' /\ SafeInv(o)'
<1> DEFINE r == op[o]
           s == op'[o]
<1> USE DEF Early, Onward, Settling, Back, Undoing, Ending, Over, Closed, Steps,
            Alike, SamePorts, SameRules, SameSession, SameStanding
<1>0. r \in OpType /\ TypeOK
      BY DEF CallsInv, TypeOK
<1>1. /\ host' = host /\ record' = record
      /\ faults' = faults \/ faults' = faults + 1
      /\ r.pc = "check" /\ Alike(r, s)
      /\ \/ s.pc = "verify" /\ live \cap {r.old, r.new} = r.want
         \/ s.pc = "preclear" /\ r.sock = "yes"
         \/ s.pc = "fallback" /\ r.sock = "no"
         \/ s.pc = "broken"
  <2> USE DEF CheckListeners, Answer, Upset, Fine, At
  <2>1. CASE Go(o, "verify") /\ live \cap {r.old, r.new} = r.want
        BY <1>0, <2>1, GoesOn
  <2>2. CASE Raised(o)
        BY <1>0, <2>2, RaisedOn
  <2> QED BY <2>1, <2>2
<1>20. conf.bysock /\ s.pc \in Back => faults' > 0
  <2> SUFFICES ASSUME conf.bysock, s.pc \in Back, ~(faults' > 0) PROVE FALSE
      OBVIOUS
  <2>1. faults \in Nat /\ faults' = faults /\ ~(faults > 0)
        BY <1>0, <1>1 DEF TypeOK
  <2>2. /\ live = r.want /\ r.want \in {{r.old, r.new}, {r.new}}
        /\ r.ctl /\ r.via = "ctl"
        BY <1>1, <2>1 DEF CallsInv, CallInv, FilesInv, UpsetInv
  <2>3. Session(o) /\ live \cap {r.old, r.new} = r.want
        BY <2>2 DEF Session
  <2>4. Go(o, "verify")
        BY <2>1, <2>3 DEF CheckListeners, Answer, Upset
  <2> QED BY <1>0, <2>4, GoesOn
<1>21. conf.bysock /\ s.pc = "verify" => r.sock # "no"
  <2> SUFFICES ASSUME conf.bysock, s.pc = "verify", r.sock = "no" PROVE FALSE
      OBVIOUS
  <2>1. live = {Base} /\ r.old = Base /\ r.old # r.new /\ r.new \in r.want
        BY <1>1 DEF CallsInv, CallInv, FilesInv, Configured, Found
  <2> QED BY <1>1, <2>1
<1>2. CallInv(o)'
      BY <1>0, <1>1, <1>20, <1>21 DEF CallsInv, CallInv, host, TypeOK
<1>3. FilesInv(o)'
      BY <1>0, <1>1, <1>20, <1>21 DEF CallsInv, CallInv, FilesInv, Found, host, TypeOK, Configured
<1>4. WallsInv(o)'
      BY <1>0, <1>1 DEF CallsInv, CallInv, FilesInv, WallsInv, AllAdmit, host
<1>5. UpsetInv(o)'
      BY <1>0, <1>1, <1>20, <1>21 DEF CallsInv, CallInv, FilesInv, WallsInv, UpsetInv, AllAdmit, Stays, TypeOK, host
<1>6. SafeInv(o)'
      BY <1>0, <1>1 DEF CallsInv, CallInv, FilesInv, WallsInv, UpsetInv, SafeInv, AllAdmit, Stays, TypeOK, host
<1> QED BY <1>2, <1>3, <1>4, <1>5, <1>6

LEMMA VerifyKeeps ==
    ASSUME NEW o \in Ops, CallsInv(o), Verify(o)
    PROVE  CallInv(o)' /\ FilesInv(o)' /\ WallsInv(o)' /\ UpsetInv(o)' /\ SafeInv(o)'
<1> DEFINE r == op[o]
           s == op'[o]
<1> USE DEF Early, Onward, Settling, Back, Undoing, Ending, Over, Closed, Steps,
            Alike, SamePorts, SameRules, SameSession, SameStanding
<1>0. r \in OpType /\ TypeOK
      BY DEF CallsInv, TypeOK
<1>1. /\ host' = host /\ record' = record
      /\ faults' = faults \/ faults' = faults + 1
      /\ r.pc = "verify" /\ SameRules(r, s) /\ SameSession(r, s) /\ SameStanding(r, s)
      /\ s.old = r.old /\ s.new = r.new /\ s.before = r.before /\ s.snap = r.snap
      /\ \/ s.pc = "commit" /\ s.want = r.want /\ r.want = {r.new} /\ r.new \in live
         \/ s.pc = "write" /\ s.want = {r.new}
         \/ s.pc = "fallback" /\ s.want = r.want
  <2> USE DEF Verify, Answer, Upset, Fine, At
  <2>1. CASE Becomes(o, [r EXCEPT !.pc = "commit"]) /\ r.want = {r.new} /\ Door(r.new)
    <3>1. s = [r EXCEPT !.pc = "commit"]
          BY <1>0, <2>1 DEF Becomes, TypeOK
    <3> QED BY <1>0, <2>1, <3>1 DEF OpType, Door
  <2>2. CASE Becomes(o, [r EXCEPT !.pc = "write", !.want = {r.new}])
    <3>1. s = [r EXCEPT !.pc = "write", !.want = {r.new}]
          BY <1>0, <2>2 DEF Becomes, TypeOK
    <3> QED BY <1>0, <3>1 DEF OpType
  <2>3. CASE Go(o, "fallback")
        BY <1>0, <2>3, GoesOn
  <2> QED BY <2>1, <2>2, <2>3
<1>20. s.pc = "fallback" => faults' > 0 \/ ~conf.bysock
  <2>1. Door(r.new)
        BY <1>1 DEF CallsInv, CallInv, FilesInv, WallsInv, AllAdmit, Door
  <2>2. s.pc = "fallback" => faults' = faults + 1
    <3>1. CASE Upset
          BY <3>1 DEF Upset
    <3>2. CASE Becomes(o, IF r.want = {r.new} THEN [r EXCEPT !.pc = "commit"]
                          ELSE [r EXCEPT !.pc = "write", !.want = {r.new}])
          BY <1>0, <3>2 DEF Becomes, TypeOK, OpType
    <3> QED BY <2>1, <3>1, <3>2 DEF Verify, Answer
  <2>3. faults \in Nat
        BY <1>0 DEF TypeOK
  <2> QED BY <2>2, <2>3
<1>2. CallInv(o)'
      BY <1>0, <1>1 DEF CallsInv, CallInv, host
<1>3. FilesInv(o)'
      BY <1>0, <1>1 DEF CallsInv, CallInv, FilesInv, Found, host
<1>4. WallsInv(o)'
      BY <1>0, <1>1 DEF CallsInv, CallInv, FilesInv, WallsInv, AllAdmit, host
<1>5. UpsetInv(o)'
      BY <1>0, <1>1, <1>20 DEF CallsInv, CallInv, FilesInv, WallsInv, UpsetInv, AllAdmit, Stays, TypeOK, host
<1>6. SafeInv(o)'
      BY <1>0, <1>1 DEF CallsInv, CallInv, FilesInv, WallsInv, UpsetInv, SafeInv, AllAdmit, Stays, TypeOK, host
<1> QED BY <1>2, <1>3, <1>4, <1>5, <1>6

LEMMA CommitKeeps ==
    ASSUME NEW o \in Ops, CallsInv(o), Commit(o)
    PROVE  CallInv(o)' /\ FilesInv(o)' /\ WallsInv(o)' /\ UpsetInv(o)' /\ SafeInv(o)'
<1> DEFINE r == op[o]
           s == op'[o]
<1> USE DEF Early, Onward, Settling, Back, Undoing, Ending, Over, Closed, Steps,
            Alike, SamePorts, SameRules, SameSession, SameStanding
<1>0. r \in OpType /\ TypeOK
      BY DEF CallsInv, TypeOK
<1>1. /\ host' = host /\ r.pc = "commit"
      /\ faults' = faults \/ faults' = faults + 1
      BY DEF Commit, At, Fine, Upset
<1>2. /\ SamePorts(r, s) /\ SameRules(r, s) /\ SameSession(r, s)
      /\ s.restored = r.restored /\ s.proved = r.proved /\ s.complete = r.complete
      /\ \/ /\ s.committed /\ s.todo = Walls
            /\ s.pc = "close" \/ s.pc = "final"
         \/ /\ record' = record /\ s.committed = r.committed /\ faults' = faults + 1
            /\ \/ s.pc = "preclear" /\ r.sock = "yes"
               \/ s.pc = "fallback" /\ r.sock = "no"
               \/ s.pc = "broken"
  <2> DEFINE next == IF Walls = {} THEN "final" ELSE "close"
  <2>1. CASE Becomes(o, [r EXCEPT !.committed = TRUE, !.todo = Walls, !.pc = next])
    <3>1. s = [r EXCEPT !.committed = TRUE, !.todo = Walls, !.pc = next]
          BY <1>0, <2>1 DEF Becomes, TypeOK
    <3> QED BY <1>0, <3>1 DEF OpType
  <2>2. CASE record' = record /\ faults' = faults + 1 /\ Raised(o)
        BY <1>0, <2>2, RaisedOn
  <2>3. record = r.old
        BY <1>1 DEF CallsInv, CallInv, WallsInv
  <2> QED BY <2>1, <2>2, <2>3 DEF Commit, Upset
<1>3. CallInv(o)'
      BY <1>0, <1>1, <1>2 DEF CallsInv, CallInv, host
<1>4. FilesInv(o)'
      BY <1>0, <1>1, <1>2 DEF CallsInv, CallInv, FilesInv, Found, host
<1>5. WallsInv(o)'
      BY <1>0, <1>1, <1>2 DEF CallsInv, CallInv, FilesInv, WallsInv, AllAdmit, host
<1>6. UpsetInv(o)'
      BY <1>0, <1>1, <1>2 DEF CallsInv, CallInv, FilesInv, WallsInv, UpsetInv, AllAdmit, Stays, TypeOK, host
<1>7. SafeInv(o)'
      BY <1>0, <1>1, <1>2 DEF CallsInv, CallInv, FilesInv, WallsInv, UpsetInv, SafeInv, AllAdmit, Stays, TypeOK, Configured, host
<1> QED BY <1>3, <1>4, <1>5, <1>6, <1>7

LEMMA CloseOldKeeps ==
    ASSUME NEW o \in Ops, CallsInv(o), NEW w \in Walls, CloseOld(o, w)
    PROVE  CallInv(o)' /\ FilesInv(o)' /\ WallsInv(o)' /\ UpsetInv(o)' /\ SafeInv(o)'
<1> DEFINE r == op[o]
           s == op'[o]
<1> USE DEF Early, Onward, Settling, Back, Undoing, Ending, Over, Closed, Steps,
            Alike, SamePorts, SameRules, SameSession, SameStanding
<1>0. r \in OpType /\ TypeOK
      BY DEF CallsInv, TypeOK
<1> DEFINE closed == [r EXCEPT !.todo = r.todo \ {w}]
           spoilt == [closed EXCEPT !.spoilt = TRUE]
<1>1. /\ closed \in OpType /\ SamePorts(r, closed) /\ SameRules(r, closed)
      /\ SameSession(r, closed) /\ SameStanding(r, closed) /\ closed.pc = r.pc
      BY <1>0 DEF OpType
<1>2. /\ spoilt \in OpType /\ SamePorts(r, spoilt)
      /\ spoilt.added = r.added /\ spoilt.overlooked = r.overlooked
      /\ SameSession(r, spoilt) /\ SameStanding(r, spoilt) /\ spoilt.pc = r.pc /\ spoilt.spoilt
  <2> HIDE DEF closed
  <2> QED BY <1>1 DEF OpType
<1> HIDE DEF closed, spoilt
<1>3. /\ conf' = conf /\ live' = live /\ record' = record /\ r.pc = "close"
      /\ faults' = faults \/ faults' = faults + 1
      /\ \/ allow' = allow
         \/ allow'[w] = allow[w] \ {r.old} /\ \A v \in Walls \ {w} : allow'[v] = allow[v]
      BY <1>0, RuleSet DEF CloseOld, Works, Fails, Upset, Fine, At
<1>4. \/ AfterClose(o, closed)
      \/ AfterClose(o, spoilt) /\ faults' = faults + 1
      \/ RecoverWith(o, r) /\ (faults' = faults + 1 \/ ~Session(o))
      BY DEF CloseOld, Works, Fails, Upset, closed, spoilt
\* What the closing of one rule leads to.
<1>5. ASSUME NEW rec \in OpType, SamePorts(r, rec), rec.added = r.added,
             rec.overlooked = r.overlooked, SameSession(r, rec), SameStanding(r, rec), rec.pc = "close", AfterClose(o, rec)
      PROVE  /\ SamePorts(r, s) /\ SameSession(r, s) /\ SameStanding(r, s)
             /\ s.added = r.added /\ s.overlooked = r.overlooked
             /\ \/ s.pc \in {"close", "final"} /\ (s.spoilt => rec.spoilt)
                \/ s.pc = "reopen" /\ s.todo = Walls /\ rec.spoilt /\ ~s.spoilt
  <2>1. CASE Becomes(o, rec)
    <3>1. s = rec
          BY <1>0, <2>1 DEF Becomes, TypeOK
    <3> QED BY <1>5, <3>1
  <2>2. CASE rec.spoilt /\ RecoverWith(o, rec)
    <3>1. /\ SamePorts(rec, s) /\ SameSession(rec, s) /\ SameStanding(rec, s)
          /\ s.added = r.added /\ s.overlooked = r.overlooked
          /\ ~s.spoilt /\ s.todo = Walls /\ s.pc = "reopen"
          BY <1>0, <1>5, <2>2, RecoverOn
    <3> QED BY <1>5, <2>2, <3>1
  <2>3. CASE Becomes(o, [rec EXCEPT !.pc = "final"])
    <3>1. s = [rec EXCEPT !.pc = "final"]
          BY <1>0, <2>3 DEF Becomes, TypeOK
    <3>2. Alike(rec, s) /\ s.pc = "final"
          BY <3>1 DEF OpType
    <3> QED BY <1>5, <3>2
  <2> QED BY <1>5, <2>1, <2>2, <2>3 DEF AfterClose
<1>6. r.spoilt => faults > 0
      BY DEF CallsInv, UpsetInv
<1>7. ~Session(o) => faults > 0
      BY <1>3 DEF CallsInv, UpsetInv, CallInv, Session
<1>8. faults \in Nat
      BY <1>0 DEF TypeOK
<1>9. /\ SamePorts(r, s) /\ SameSession(r, s) /\ SameStanding(r, s)
      /\ s.added = r.added /\ s.overlooked = r.overlooked
      /\ s.spoilt => faults' > 0
      /\ \/ s.pc \in {"close", "final"}
         \/ s.pc = "reopen" /\ s.todo = Walls /\ faults' > 0
  <2>1. CASE AfterClose(o, closed)
        BY <1>1, <1>3, <1>5, <1>6, <1>8, <2>1
  <2>2. CASE AfterClose(o, spoilt) /\ faults' = faults + 1
        BY <1>2, <1>3, <1>5, <1>8, <2>2
  <2>3. CASE RecoverWith(o, r) /\ (faults' = faults + 1 \/ ~Session(o))
    <3>1. faults' > 0
          BY <1>3, <1>7, <1>8, <2>3
    <3> QED BY <1>0, <2>3, <3>1, RecoverOn
  <2> QED BY <1>4, <2>1, <2>2, <2>3
<1>10. Stays(r.new)
      BY <1>3, SettledServes DEF CallsInv
<1>11. CallInv(o)'
      BY <1>0, <1>3, <1>8, <1>9, <1>10 DEF CallsInv, CallInv
<1>12. FilesInv(o)'
      BY <1>0, <1>3, <1>8, <1>9, <1>10 DEF CallsInv, CallInv, FilesInv, Found
<1>13. WallsInv(o)'
      BY <1>0, <1>3, <1>8, <1>9, <1>10 DEF CallsInv, CallInv, FilesInv, WallsInv, AllAdmit
<1>14. UpsetInv(o)'
      BY <1>0, <1>3, <1>8, <1>9, <1>10 DEF CallsInv, CallInv, FilesInv, WallsInv, UpsetInv, AllAdmit, Stays, TypeOK
<1>15. SafeInv(o)'
      BY <1>0, <1>3, <1>8, <1>9, <1>10 DEF CallsInv, CallInv, FilesInv, WallsInv, UpsetInv, SafeInv, AllAdmit, Stays, TypeOK
<1> QED BY <1>11, <1>12, <1>13, <1>14, <1>15

LEMMA FinalKeeps ==
    ASSUME NEW o \in Ops, CallsInv(o), Final(o)
    PROVE  CallInv(o)' /\ FilesInv(o)' /\ WallsInv(o)' /\ UpsetInv(o)' /\ SafeInv(o)'
<1> DEFINE r == op[o]
           s == op'[o]
<1> USE DEF Early, Onward, Settling, Back, Undoing, Ending, Over, Closed, Steps,
            Alike, SamePorts, SameRules, SameSession, SameStanding
<1>0. r \in OpType /\ TypeOK
      BY DEF CallsInv, TypeOK
<1>1. /\ host' = host /\ record' = record /\ r.pc = "final"
      /\ faults' = faults \/ faults' = faults + 1
      BY DEF Final, At, Answer, Upset, Fine
<1>2. \/ Alike(r, s) /\ s.pc = "done"
      \/ /\ SamePorts(r, s) /\ SameSession(r, s) /\ SameStanding(r, s)
         /\ s.added = r.added /\ s.overlooked = r.overlooked /\ ~s.spoilt /\ s.todo = Walls
         /\ faults' = faults + 1 \/ ~Door(r.new)
         /\ \/ s.pc = "reopen"
            \/ s.pc = "fallback" /\ Walls = {}
  <2>1. CASE Go(o, "done")
        BY <1>0, <2>1, GoesOn
  <2>2. CASE RecoverWith(o, r) /\ (faults' = faults + 1 \/ ~Door(r.new))
        BY <1>0, <2>2, RecoverOn
  <2> QED BY <2>1, <2>2 DEF Final, Answer, Upset
<1>3. r.new \in live /\ AllAdmit(r.new) /\ faults \in Nat
      BY <1>0, <1>1 DEF CallsInv, CallInv, FilesInv, WallsInv, TypeOK
<1>4. Door(r.new)
      BY <1>3 DEF Door, AllAdmit
<1>5. Stays(r.new)
      BY <1>1, SettledServes DEF CallsInv
<1>6. CallInv(o)'
      BY <1>0, <1>1, <1>2, <1>3, <1>4, <1>5 DEF CallsInv, CallInv, host
<1>7. FilesInv(o)'
      BY <1>0, <1>1, <1>2, <1>3, <1>4, <1>5 DEF CallsInv, CallInv, FilesInv, Found, host
<1>8. WallsInv(o)'
      BY <1>0, <1>1, <1>2, <1>3, <1>4, <1>5 DEF CallsInv, CallInv, FilesInv, WallsInv, AllAdmit, host
<1>9. UpsetInv(o)'
      BY <1>0, <1>1, <1>2, <1>3, <1>4, <1>5 DEF CallsInv, CallInv, FilesInv, WallsInv, UpsetInv, AllAdmit, Stays, TypeOK, host
<1>10. SafeInv(o)'
      BY <1>0, <1>1, <1>2, <1>3, <1>4, <1>5 DEF CallsInv, CallInv, FilesInv, WallsInv, UpsetInv, SafeInv, AllAdmit, Stays, TypeOK, host
<1> QED BY <1>6, <1>7, <1>8, <1>9, <1>10

LEMMA ReopenOldKeeps ==
    ASSUME NEW o \in Ops, CallsInv(o), NEW w \in Walls, ReopenOld(o, w)
    PROVE  CallInv(o)' /\ FilesInv(o)' /\ WallsInv(o)' /\ UpsetInv(o)' /\ SafeInv(o)'
<1> DEFINE r == op[o]
           s == op'[o]
<1> USE DEF Early, Onward, Settling, Back, Undoing, Ending, Over, Closed, Steps,
            Alike, SamePorts, SameRules, SameSession, SameStanding
<1>0. r \in OpType /\ TypeOK
      BY DEF CallsInv, TypeOK
<1> DEFINE left == r.todo \ {w}
           back == IF r.old \in allow[w] THEN r.back ELSE r.back \cup {w}
           next == IF left = {} THEN "fallback" ELSE "reopen"
           undo == IF r.back = {} THEN "fallback" ELSE "unreopen"
<1>1. /\ conf' = conf /\ live' = live /\ record' = record /\ r.pc = "reopen"
      BY DEF ReopenOld, At
<1>2. /\ SamePorts(r, s) /\ SameRules(r, s) /\ SameSession(r, s) /\ SameStanding(r, s)
      /\ \/ /\ faults' = faults /\ s.pc = next /\ s.todo = left
            /\ allow'[w] = allow[w] \cup {r.old} /\ \A v \in Walls \ {w} : allow'[v] = allow[v]
         \/ /\ faults' = faults + 1 /\ s.pc \in {"fallback", "unreopen"}
            /\ \/ allow' = allow
               \/ allow'[w] = allow[w] \cup {r.old} /\ \A v \in Walls \ {w} : allow'[v] = allow[v]
         \/ /\ faults' = faults /\ ~r.ctl /\ s.pc = "fallback" /\ allow' = allow
  <2> HIDE DEF back, undo, next
  <2>0. undo = "fallback" \/ undo = "unreopen"
        BY DEF undo
  <2>1. CASE /\ Fine /\ SetAllow(w, allow[w] \cup {r.old})
             /\ Becomes(o, [r EXCEPT !.todo = left, !.back = back, !.pc = next])
    <3>1. s = [r EXCEPT !.todo = left, !.back = back, !.pc = next]
          BY <1>0, <2>1 DEF Becomes, TypeOK
    <3>2. Alike(r, s) /\ s.todo = left /\ s.pc = next
          BY <1>0, <3>1 DEF OpType
    <3> QED BY <1>0, <2>1, <3>2, RuleSet DEF Fine
  <2>2. CASE /\ Upset
             /\ UNCHANGED allow \/ SetAllow(w, allow[w] \cup {r.old})
             /\ Becomes(o, [r EXCEPT !.todo = r.back, !.pc = undo])
    <3>1. s = [r EXCEPT !.todo = r.back, !.pc = undo]
          BY <1>0, <2>2 DEF Becomes, TypeOK
    <3>2. Alike(r, s) /\ s.pc = undo
          BY <1>0, <3>1 DEF OpType
    <3>3. \/ allow' = allow
          \/ allow'[w] = allow[w] \cup {r.old} /\ \A v \in Walls \ {w} : allow'[v] = allow[v]
          BY <1>0, <2>2, RuleSet
    <3> QED BY <2>0, <2>2, <3>2, <3>3 DEF Upset
  <2>3. CASE /\ Fails(o, UNCHANGED allow, SetAllow(w, allow[w] \cup {r.old}))
             /\ Go(o, "fallback")
    <3>1. Alike(r, s) /\ s.pc = "fallback"
          BY <1>0, <2>3, GoesOn
    <3>2. r.via = "ctl"
          BY <1>1 DEF CallsInv, CallInv
    <3> QED BY <1>0, <2>3, <3>1, <3>2, RuleSet DEF Fails, Upset, Fine, Session
  <2> QED BY <2>1, <2>2, <2>3 DEF ReopenOld, Works, back, undo, next
<1> HIDE DEF next
<1>3. faults \in Nat /\ (next = "reopen" \/ (next = "fallback" /\ left = {}))
      BY <1>0 DEF TypeOK, next
<1>4. CallInv(o)'
      BY <1>0, <1>1, <1>2, <1>3 DEF CallsInv, CallInv
<1>5. FilesInv(o)'
      BY <1>0, <1>1, <1>2, <1>3 DEF CallsInv, CallInv, FilesInv, Found
<1>6. WallsInv(o)'
      BY <1>0, <1>1, <1>2, <1>3 DEF CallsInv, CallInv, FilesInv, WallsInv, AllAdmit
<1>7. UpsetInv(o)'
      BY <1>0, <1>1, <1>2, <1>3 DEF CallsInv, CallInv, FilesInv, WallsInv, UpsetInv, AllAdmit, Stays, TypeOK
<1>8. SafeInv(o)'
      BY <1>0, <1>1, <1>2, <1>3 DEF CallsInv, CallInv, FilesInv, WallsInv, UpsetInv, SafeInv, AllAdmit, Stays, TypeOK
<1> QED BY <1>4, <1>5, <1>6, <1>7, <1>8

LEMMA UnreopenKeeps ==
    ASSUME NEW o \in Ops, CallsInv(o), NEW w \in Walls, Unreopen(o, w)
    PROVE  CallInv(o)' /\ FilesInv(o)' /\ WallsInv(o)' /\ UpsetInv(o)' /\ SafeInv(o)'
<1> DEFINE r == op[o]
           s == op'[o]
<1> USE DEF Early, Onward, Settling, Back, Undoing, Ending, Over, Closed, Steps,
            Alike, SamePorts, SameRules, SameSession, SameStanding
<1>0. r \in OpType /\ TypeOK
      BY DEF CallsInv, TypeOK
<1> DEFINE left == r.todo \ {w}
           next == IF left = {} THEN "fallback" ELSE "unreopen"
<1>1. /\ conf' = conf /\ live' = live /\ record' = record /\ r.pc = "unreopen"
      /\ faults' = faults \/ faults' = faults + 1
      /\ \/ allow' = allow
         \/ allow'[w] = allow[w] \ {r.old} /\ \A v \in Walls \ {w} : allow'[v] = allow[v]
      BY <1>0, RuleSet DEF Unreopen, At, Works, Fails, Upset, Fine
<1>2. Alike(r, s) /\ s.pc \in {"fallback", "unreopen"}
  <2> HIDE DEF next
  <2>1. s = [r EXCEPT !.todo = left, !.pc = next]
        BY <1>0 DEF Unreopen, Becomes, TypeOK, next
  <2>2. Alike(r, s) /\ s.pc = next
        BY <1>0, <2>1 DEF OpType
  <2> QED BY <2>2 DEF next
<1>3. faults \in Nat
      BY <1>0 DEF TypeOK
<1>4. CallInv(o)'
      BY <1>0, <1>1, <1>2, <1>3 DEF CallsInv, CallInv
<1>5. FilesInv(o)'
      BY <1>0, <1>1, <1>2, <1>3 DEF CallsInv, CallInv, FilesInv, Found
<1>6. WallsInv(o)'
      BY <1>0, <1>1, <1>2, <1>3 DEF CallsInv, CallInv, FilesInv, WallsInv, AllAdmit
<1>7. UpsetInv(o)'
      BY <1>0, <1>1, <1>2, <1>3 DEF CallsInv, CallInv, FilesInv, WallsInv, UpsetInv, AllAdmit, Stays, TypeOK
<1>8. SafeInv(o)'
      BY <1>0, <1>1, <1>2, <1>3 DEF CallsInv, CallInv, FilesInv, WallsInv, UpsetInv, SafeInv, AllAdmit, Stays, TypeOK
<1> QED BY <1>4, <1>5, <1>6, <1>7, <1>8

LEMMA PreclearKeeps ==
    ASSUME NEW o \in Ops, CallsInv(o), Preclear(o)
    PROVE  CallInv(o)' /\ FilesInv(o)' /\ WallsInv(o)' /\ UpsetInv(o)' /\ SafeInv(o)'
<1> DEFINE r == op[o]
           s == op'[o]
<1> USE DEF Early, Onward, Settling, Back, Undoing, Ending, Over, Closed, Steps,
            Alike, SamePorts, SameRules, SameSession, SameStanding
<1>0. r \in OpType /\ TypeOK
      BY DEF CallsInv, TypeOK
<1>1. /\ allow' = allow /\ record' = record /\ r.pc = "preclear"
      /\ faults' = faults \/ faults' = faults + 1
      /\ Alike(r, s) /\ s.pc \in {"fallback", "broken"}
      BY <1>0, GoesOn DEF Preclear, Socket, Works, Fails, Upset, Fine, At
<1>2. /\ conf'.main = conf.main /\ conf'.bysock = conf.bysock /\ conf'.drop = conf.drop
      /\ conf'.sock = conf.sock \/ conf'.sock = {}
      /\ live' = live \/ (live' = Configured(conf') /\ conf'.sock = {})
  <2>1. CASE conf' = [conf EXCEPT !.sock = {}]
        BY <1>0, <2>1 DEF Preclear, Socket, Works, Fails, TypeOK
  <2>2. CASE conf' = conf /\ live' = live
        BY <1>0, <2>2
  <2> QED BY <2>1, <2>2 DEF Preclear, Socket, Works, Fails
<1>10. s.pc = "fallback" => conf'.sock = {} /\ live' = Configured(conf')
  <2>1. CASE Go(o, "broken")
        BY <1>0, <2>1, GoesOn
  <2>2. CASE conf' = [conf EXCEPT !.sock = {}] /\ live' = Configured(conf')
        BY <1>0, <2>2 DEF TypeOK
  <2> QED BY <2>1, <2>2 DEF Preclear, Socket, Works
<1>3. r.want # {} /\ conf.bysock /\ ~r.committed
      BY <1>1 DEF CallsInv, CallInv
<1>4. Base = r.old
      BY <1>3 DEF CallsInv, FilesInv, Found
<1>5. CallInv(o)'
      BY <1>0, <1>1, <1>2, <1>3, <1>4 DEF CallsInv, CallInv
<1>6. FilesInv(o)'
      BY <1>0, <1>1, <1>2, <1>3, <1>4, <1>10 DEF CallsInv, CallInv, FilesInv, Found, Configured, TypeOK
<1>7. WallsInv(o)'
      BY <1>0, <1>1, <1>2, <1>3, <1>4 DEF CallsInv, CallInv, FilesInv, WallsInv, AllAdmit
<1>8. UpsetInv(o)'
      BY <1>0, <1>1, <1>2, <1>3, <1>4 DEF CallsInv, CallInv, FilesInv, WallsInv, UpsetInv, AllAdmit, Stays, TypeOK
<1>9. SafeInv(o)'
      BY <1>0, <1>1, <1>2, <1>3, <1>4 DEF CallsInv, CallInv, FilesInv, WallsInv, UpsetInv, SafeInv, AllAdmit, Stays, TypeOK
<1> QED BY <1>5, <1>6, <1>7, <1>8, <1>9

LEMMA FallbackKeeps ==
    ASSUME NEW o \in Ops, CallsInv(o), Fallback(o)
    PROVE  CallInv(o)' /\ FilesInv(o)' /\ WallsInv(o)' /\ UpsetInv(o)' /\ SafeInv(o)'
<1> DEFINE r == op[o]
           s == op'[o]
<1> USE DEF Early, Onward, Settling, Back, Undoing, Ending, Over, Closed, Steps,
            Alike, SamePorts, SameRules, SameSession, SameStanding
<1>0. r \in OpType /\ TypeOK
      BY DEF CallsInv, TypeOK
<1>1. /\ host' = host /\ record' = record /\ r.pc = "fallback"
      /\ faults' = faults \/ faults' = faults + 1
      /\ SamePorts(r, s) /\ SameRules(r, s) /\ SameStanding(r, s)
      /\ s.ctl = r.ctl /\ s.sock = r.sock /\ s.via = r.via
      /\ s.pc = "rfile" /\ (s.fall = r.fall \/ Door(r.old))
  <2> USE DEF Fallback, Answer, Upset, Fine, At
  <2>1. CASE Becomes(o, [r EXCEPT !.fall = TRUE, !.pc = "rfile"]) /\ Door(r.old)
    <3>1. s = [r EXCEPT !.fall = TRUE, !.pc = "rfile"]
          BY <1>0, <2>1 DEF Becomes, TypeOK
    <3>2. s.ctl = r.ctl /\ s.sock = r.sock /\ s.via = r.via /\ s.pc = "rfile"
          BY <1>0, <3>1 DEF OpType
    <3>3. SamePorts(r, s) /\ SameRules(r, s) /\ SameStanding(r, s)
          BY <1>0, <3>1 DEF OpType
    <3> QED BY <2>1, <3>2, <3>3
  <2>2. CASE Go(o, "rfile")
        BY <1>0, <2>2, GoesOn
  <2> QED BY <2>1, <2>2
<1>2. CallInv(o)'
      BY <1>0, <1>1 DEF CallsInv, CallInv, host, TypeOK
<1>3. FilesInv(o)'
      BY <1>0, <1>1 DEF CallsInv, CallInv, FilesInv, Found, host
<1>4. WallsInv(o)'
      BY <1>0, <1>1 DEF CallsInv, CallInv, FilesInv, WallsInv, AllAdmit, host
<1>5. UpsetInv(o)'
      BY <1>0, <1>1 DEF CallsInv, CallInv, FilesInv, WallsInv, UpsetInv, AllAdmit, Stays, TypeOK, host, Door
<1>6. SafeInv(o)'
      BY <1>0, <1>1 DEF CallsInv, CallInv, FilesInv, WallsInv, UpsetInv, SafeInv, AllAdmit, Stays, TypeOK, host
<1> QED BY <1>2, <1>3, <1>4, <1>5, <1>6

LEMMA RestoreFileKeeps ==
    ASSUME NEW o \in Ops, CallsInv(o), RestoreFile(o)
    PROVE  CallInv(o)' /\ FilesInv(o)' /\ WallsInv(o)' /\ UpsetInv(o)' /\ SafeInv(o)'
<1> DEFINE r == op[o]
           s == op'[o]
<1> USE DEF Early, Onward, Settling, Back, Undoing, Ending, Over, Closed, Steps,
            Alike, SamePorts, SameRules, SameSession, SameStanding
<1>0. r \in OpType /\ TypeOK
      BY DEF CallsInv, TypeOK
<1>1. /\ live' = live /\ allow' = allow /\ record' = record /\ r.pc = "rfile"
      /\ faults' = faults \/ faults' = faults + 1
      BY DEF RestoreFile, Works, Fails, Upset, Fine, At
<1>2. /\ conf'.main = conf.main /\ conf'.bysock = conf.bysock /\ conf'.sock = conf.sock
      /\ conf'.drop = conf.drop \/ conf'.drop = r.snap
      /\ SamePorts(r, s) /\ SameRules(r, s) /\ SameStanding(r, s)
      /\ s.sock = r.sock /\ s.ctl = r.ctl /\ s.fall = r.fall
      /\ \/ /\ s.via = r.via /\ conf'.drop = r.snap
            /\ \/ s.pc = "rsock" /\ conf.bysock
               \/ s.pc = "rload" /\ (~conf.bysock \/ faults' = faults + 1)
         \/ s.pc = "rfile" /\ s.via = "fall" /\ r.fall
         \/ s.pc = "rverify" /\ s.via = r.via
      /\ Session(o) \/ (conf' = conf /\ s.pc \in {"rfile", "rverify"})
  <2> DEFINE back == conf' = [conf EXCEPT !.drop = r.snap]
  <2>1. CASE Session(o) /\ back /\ Go(o, IF conf.bysock THEN "rsock" ELSE "rload")
        BY <1>0, <2>1, GoesOn DEF TypeOK
  <2>3. CASE Session(o) /\ Upset /\ back /\ Go(o, "rload")
        BY <1>0, <2>3, GoesOn DEF TypeOK, Upset
  <2>2. CASE (conf' = conf \/ (Session(o) /\ back)) /\ NextSession(o)
    <3>1. /\ conf'.main = conf.main /\ conf'.bysock = conf.bysock /\ conf'.sock = conf.sock
          /\ conf'.drop = conf.drop \/ conf'.drop = r.snap
          BY <1>0, <2>2 DEF TypeOK
    <3> QED BY <1>0, <2>2, <3>1, NextSessionOn
  <2> QED BY <2>1, <2>2, <2>3 DEF RestoreFile, Works, Fails
<1>3. Session(o) => r.ctl \/ r.fall
      BY DEF Session
<1>4. CallInv(o)'
      BY <1>0, <1>1, <1>2, <1>3 DEF CallsInv, CallInv, TypeOK
<1>5. FilesInv(o)'
      BY <1>0, <1>1, <1>2, <1>3, SMTT(30) DEF CallsInv, CallInv, FilesInv, UpsetInv, Found, TypeOK, Configured
<1>6. WallsInv(o)'
      BY <1>0, <1>1, <1>2, <1>3 DEF CallsInv, CallInv, FilesInv, WallsInv, AllAdmit
<1>7. UpsetInv(o)'
      BY <1>0, <1>1, <1>2, <1>3 DEF CallsInv, CallInv, FilesInv, WallsInv, UpsetInv, AllAdmit, Stays, TypeOK, Configured
<1>8. SafeInv(o)'
      BY <1>0, <1>1, <1>2, <1>3 DEF CallsInv, CallInv, FilesInv, WallsInv, UpsetInv, SafeInv, AllAdmit, Stays, TypeOK, Configured
<1> QED BY <1>4, <1>5, <1>6, <1>7, <1>8

LEMMA RestoreSocketKeeps ==
    ASSUME NEW o \in Ops, CallsInv(o), RestoreSocket(o)
    PROVE  CallInv(o)' /\ FilesInv(o)' /\ WallsInv(o)' /\ UpsetInv(o)' /\ SafeInv(o)'
<1> DEFINE r == op[o]
           s == op'[o]
<1> USE DEF Early, Onward, Settling, Back, Undoing, Ending, Over, Closed, Steps,
            Alike, SamePorts, SameRules, SameSession, SameStanding
<1>0. r \in OpType /\ TypeOK
      BY DEF CallsInv, TypeOK
<1>1. /\ allow' = allow /\ record' = record /\ r.pc = "rsock"
      /\ faults' = faults \/ faults' = faults + 1
      BY DEF RestoreSocket, Socket, Works, Fails, Upset, Fine, At
<1>2. /\ conf'.main = conf.main /\ conf'.bysock = conf.bysock /\ conf'.drop = conf.drop
      /\ conf'.sock = conf.sock \/ conf'.sock = {}
      /\ live' = live \/ (live' = Configured(conf') /\ conf'.sock = {})
      /\ SamePorts(r, s) /\ SameRules(r, s) /\ SameStanding(r, s)
      /\ s.sock = r.sock /\ s.ctl = r.ctl /\ s.fall = r.fall
      /\ \/ /\ s.via = r.via /\ s.pc = "rload"
            /\ conf'.sock = {} /\ live' = Configured(conf')
         \/ s.pc = "rfile" /\ s.via = "fall" /\ r.fall
         \/ s.pc = "rverify" /\ s.via = r.via
      /\ Session(o) \/ (conf' = conf /\ live' = live /\ s.pc \in {"rfile", "rverify"})
  <2> DEFINE wrote == conf' = [conf EXCEPT !.sock = {}]
  <2>1. CASE Session(o) /\ wrote /\ live' = Configured(conf') /\ Go(o, "rload")
        BY <1>0, <2>1, GoesOn DEF TypeOK
  <2>2. CASE /\ \/ conf' = conf /\ live' = live
                \/ Session(o) /\ wrote /\ (live' = live \/ live' = Configured(conf'))
             /\ NextSession(o)
    <3>1. /\ conf'.main = conf.main /\ conf'.bysock = conf.bysock /\ conf'.drop = conf.drop
          /\ conf'.sock = conf.sock \/ conf'.sock = {}
          /\ live' = live \/ (live' = Configured(conf') /\ conf'.sock = {})
          BY <1>0, <2>2 DEF TypeOK
    <3> QED BY <1>0, <2>2, <3>1, NextSessionOn
  <2> QED BY <2>1, <2>2 DEF RestoreSocket, Socket, Works, Fails
<1>3. Session(o) => r.ctl \/ r.fall
      BY DEF Session
<1>4. r.want # {} /\ conf.bysock
      BY <1>1 DEF CallsInv, CallInv, FilesInv
<1>5. Base = r.old
      BY <1>4 DEF CallsInv, FilesInv, Found
<1>6. CallInv(o)'
      BY <1>0, <1>1, <1>2, <1>3, <1>4, <1>5 DEF CallsInv, CallInv, TypeOK
<1>7. FilesInv(o)'
      BY <1>0, <1>1, <1>2, <1>3, <1>4, <1>5 DEF CallsInv, CallInv, FilesInv, Found, Configured
<1>8. WallsInv(o)'
      BY <1>0, <1>1, <1>2, <1>3, <1>4, <1>5 DEF CallsInv, CallInv, FilesInv, WallsInv, AllAdmit
<1>9. UpsetInv(o)'
      BY <1>0, <1>1, <1>2, <1>3, <1>4, <1>5 DEF CallsInv, CallInv, FilesInv, WallsInv, UpsetInv, AllAdmit, Stays, TypeOK
<1>10. SafeInv(o)'
      BY <1>0, <1>1, <1>2, <1>3, <1>4, <1>5 DEF CallsInv, CallInv, FilesInv, WallsInv, UpsetInv, SafeInv, AllAdmit, Stays, TypeOK
<1> QED BY <1>6, <1>7, <1>8, <1>9, <1>10

LEMMA RestoreReloadKeeps ==
    ASSUME NEW o \in Ops, CallsInv(o), RestoreReload(o)
    PROVE  CallInv(o)' /\ FilesInv(o)' /\ WallsInv(o)' /\ UpsetInv(o)' /\ SafeInv(o)'
<1> DEFINE r == op[o]
           s == op'[o]
<1> USE DEF Early, Onward, Settling, Back, Undoing, Ending, Over, Closed, Steps,
            Alike, SamePorts, SameRules, SameSession, SameStanding
<1>0. r \in OpType /\ TypeOK
      BY DEF CallsInv, TypeOK
<1>1. /\ conf' = conf /\ allow' = allow /\ record' = record /\ r.pc = "rload"
      /\ faults' = faults \/ faults' = faults + 1
      /\ live' = live \/ (~conf.bysock /\ live' = Configured(conf))
      BY DEF RestoreReload, Reloaded, Works, Fails, Upset, Fine, At
<1>2. /\ SamePorts(r, s) /\ SameRules(r, s)
      /\ s.committed = r.committed /\ s.proved = r.proved /\ s.complete = r.complete
      /\ s.sock = r.sock /\ s.ctl = r.ctl /\ s.fall = r.fall
      /\ \/ /\ s.via = r.via /\ s.pc = "rverify" /\ s.restored
            /\ conf.bysock \/ live' = Configured(conf)
         \/ s.pc = "rfile" /\ s.via = "fall" /\ r.fall /\ s.restored = r.restored
         \/ s.pc = "rverify" /\ s.via = r.via /\ s.restored = r.restored
      /\ Session(o) \/ (live' = live /\ s.restored = r.restored)
  <2>1. CASE /\ Session(o) /\ (Reloaded \/ (conf.bysock /\ live' = live))
             /\ Becomes(o, [r EXCEPT !.restored = TRUE, !.pc = "rverify"])
    <3>1. s = [r EXCEPT !.restored = TRUE, !.pc = "rverify"]
          BY <1>0, <2>1 DEF Becomes, TypeOK
    <3>2. /\ SamePorts(r, s) /\ SameRules(r, s) /\ SameSession(r, s)
          /\ s.committed = r.committed /\ s.proved = r.proved /\ s.complete = r.complete
          BY <1>0, <3>1 DEF OpType
    <3>3. s.restored /\ s.pc = "rverify"
          BY <1>0, <3>1 DEF OpType
    <3> QED BY <2>1, <3>2, <3>3 DEF Reloaded
  <2>2. CASE (live' = live \/ Session(o)) /\ NextSession(o)
        BY <1>0, <2>2, NextSessionOn
  <2> QED BY <2>1, <2>2 DEF RestoreReload, Works, Fails
<1>3. Session(o) => r.ctl \/ r.fall
      BY DEF Session
<1>4. r.want # {} /\ conf.drop = r.snap
      BY <1>1 DEF CallsInv, CallInv, FilesInv
<1>5. conf.bysock => faults > 1 \/ (conf.sock = {} /\ live = Configured(conf))
      BY <1>1 DEF CallsInv, FilesInv
<1>6. faults > 1 \/ r.old \in Configured(conf)
      BY <1>4, <1>5, FoundAgain DEF CallsInv, FilesInv
<1>7. CallInv(o)'
      BY <1>0, <1>1, <1>2, <1>3, <1>4, <1>5, <1>6 DEF CallsInv, CallInv, TypeOK
<1>8. FilesInv(o)'
      BY <1>0, <1>1, <1>2, <1>3, <1>4, <1>5, <1>6 DEF CallsInv, CallInv, FilesInv, Found, TypeOK, Configured
<1>9. WallsInv(o)'
      BY <1>0, <1>1, <1>2, <1>3, <1>4, <1>5, <1>6 DEF CallsInv, CallInv, FilesInv, WallsInv, AllAdmit
<1>10. UpsetInv(o)'
      BY <1>0, <1>1, <1>2, <1>3, <1>4, <1>5, <1>6 DEF CallsInv, CallInv, FilesInv, WallsInv, UpsetInv, AllAdmit, Stays, TypeOK
<1>11. SafeInv(o)'
      BY <1>0, <1>1, <1>2, <1>3, <1>4, <1>5, <1>6 DEF CallsInv, CallInv, FilesInv, WallsInv, UpsetInv, SafeInv, AllAdmit, Stays, TypeOK
<1> QED BY <1>7, <1>8, <1>9, <1>10, <1>11

LEMMA RestoreVerifyKeeps ==
    ASSUME NEW o \in Ops, CallsInv(o), RestoreVerify(o)
    PROVE  CallInv(o)' /\ FilesInv(o)' /\ WallsInv(o)' /\ UpsetInv(o)' /\ SafeInv(o)'
<1> DEFINE r == op[o]
           s == op'[o]
<1> USE DEF Early, Onward, Settling, Back, Undoing, Ending, Over, Closed, Steps,
            Alike, SamePorts, SameRules, SameSession, SameStanding
<1>0. r \in OpType /\ TypeOK
      BY DEF CallsInv, TypeOK
<1>1. /\ host' = host /\ record' = record /\ r.pc = "rverify"
      /\ faults' = faults \/ faults' = faults + 1
      /\ SamePorts(r, s) /\ SameRules(r, s) /\ SameSession(r, s)
      /\ s.committed = r.committed /\ s.restored = r.restored /\ s.complete = r.complete
      /\ s.pc = "rlisten" /\ (s.proved = r.proved \/ Door(r.old))
  <2> USE DEF RestoreVerify, Answer, Upset, Fine, At
  <2>1. CASE Becomes(o, [r EXCEPT !.proved = TRUE, !.pc = "rlisten"]) /\ Door(r.old)
    <3>1. s = [r EXCEPT !.proved = TRUE, !.pc = "rlisten"]
          BY <1>0, <2>1 DEF Becomes, TypeOK
    <3>2. /\ s.committed = r.committed /\ s.restored = r.restored /\ s.complete = r.complete
          /\ s.pc = "rlisten"
          BY <1>0, <3>1 DEF OpType
    <3>3. SamePorts(r, s) /\ SameRules(r, s) /\ SameSession(r, s)
          BY <1>0, <3>1 DEF OpType
    <3> QED BY <2>1, <3>2, <3>3
  <2>2. CASE Go(o, "rlisten")
        BY <1>0, <2>2, GoesOn
  <2> QED BY <2>1, <2>2
<1>2. CallInv(o)'
      BY <1>0, <1>1 DEF CallsInv, CallInv, host, TypeOK
<1>3. FilesInv(o)'
      BY <1>0, <1>1 DEF CallsInv, CallInv, FilesInv, Found, host, TypeOK, Configured
<1>4. WallsInv(o)'
      BY <1>0, <1>1 DEF CallsInv, CallInv, FilesInv, WallsInv, AllAdmit, host, Door
<1>5. UpsetInv(o)'
      BY <1>0, <1>1 DEF CallsInv, CallInv, FilesInv, WallsInv, UpsetInv, AllAdmit, Stays, TypeOK, host
<1>6. SafeInv(o)'
      BY <1>0, <1>1 DEF CallsInv, CallInv, FilesInv, WallsInv, UpsetInv, SafeInv, AllAdmit, Stays, TypeOK, host
<1> QED BY <1>2, <1>3, <1>4, <1>5, <1>6

LEMMA RestoreListenKeeps ==
    ASSUME NEW o \in Ops, CallsInv(o), RestoreListen(o)
    PROVE  CallInv(o)' /\ FilesInv(o)' /\ WallsInv(o)' /\ UpsetInv(o)' /\ SafeInv(o)'
<1> DEFINE r == op[o]
           s == op'[o]
<1> USE DEF Early, Onward, Settling, Back, Undoing, Ending, Over, Closed, Steps,
            Alike, SamePorts, SameRules, SameSession, SameStanding
<1>0. r \in OpType /\ TypeOK
      BY DEF CallsInv, TypeOK
<1> DEFINE on(c) == [r EXCEPT !.complete = c /\ r.restored /\ r.proved,
                              !.via = "ctl", !.todo = r.added,
                              !.pc = IF r.committed THEN "revert" ELSE "cleanup"]
<1>1. /\ host' = host /\ record' = record /\ r.pc = "rlisten"
      /\ faults' = faults \/ faults' = faults + 1
      BY DEF RestoreListen, Answer, Upset, Fine, At
<1>2. /\ SamePorts(r, s) /\ SameRules(r, s)
      /\ s.committed = r.committed /\ s.restored = r.restored /\ s.proved = r.proved
      /\ s.sock = r.sock /\ s.ctl = r.ctl /\ s.fall = r.fall /\ s.via = "ctl"
      /\ s.todo = r.added /\ (s.complete => r.restored /\ r.proved /\ r.new \notin live)
      /\ s.pc = IF r.committed THEN "revert" ELSE "cleanup"
  <2>1. PICK c \in BOOLEAN : Becomes(o, on(c)) /\ (c => r.new \notin live)
        BY DEF RestoreListen, Answer
  <2> DEFINE whole == c /\ r.restored /\ r.proved
             next == IF r.committed THEN "revert" ELSE "cleanup"
  <2> HIDE DEF whole, next
  <2>2. s = [r EXCEPT !.complete = whole, !.via = "ctl", !.todo = r.added, !.pc = next]
        BY <1>0, <2>1 DEF Becomes, TypeOK, whole, next
  <2>3. SamePorts(r, s) /\ SameRules(r, s)
        BY <1>0, <2>2 DEF OpType
  <2>4. /\ s.committed = r.committed /\ s.restored = r.restored /\ s.proved = r.proved
        /\ s.sock = r.sock /\ s.ctl = r.ctl /\ s.fall = r.fall
        BY <1>0, <2>2 DEF OpType
  <2>5. s.via = "ctl" /\ s.todo = r.added /\ s.complete = whole /\ s.pc = next
        BY <1>0, <2>2 DEF OpType
  <2> QED BY <2>1, <2>3, <2>4, <2>5 DEF whole, next
<1>3. r.restored /\ ~(faults > 1) => Stays(r.old)
      BY RestoredServes DEF CallsInv
<1>4. CallInv(o)'
      BY <1>0, <1>1, <1>2, <1>3 DEF CallsInv, CallInv, host, TypeOK
<1>5. FilesInv(o)'
      BY <1>0, <1>1, <1>2, <1>3 DEF CallsInv, CallInv, FilesInv, Found, host, TypeOK, Configured
<1>6. WallsInv(o)'
      BY <1>0, <1>1, <1>2, <1>3 DEF CallsInv, CallInv, FilesInv, WallsInv, AllAdmit, host
<1>7. UpsetInv(o)'
      BY <1>0, <1>1, <1>2, <1>3 DEF CallsInv, CallInv, FilesInv, WallsInv, UpsetInv, AllAdmit, Stays, TypeOK, host
<1>8. SafeInv(o)'
      BY <1>0, <1>1, <1>2, <1>3 DEF CallsInv, CallInv, FilesInv, WallsInv, UpsetInv, SafeInv, AllAdmit, Stays, TypeOK, host
<1> QED BY <1>4, <1>5, <1>6, <1>7, <1>8

LEMMA RevertKeeps ==
    ASSUME NEW o \in Ops, CallsInv(o), Revert(o)
    PROVE  CallInv(o)' /\ FilesInv(o)' /\ WallsInv(o)' /\ UpsetInv(o)' /\ SafeInv(o)'
<1> DEFINE r == op[o]
           s == op'[o]
<1> USE DEF Early, Onward, Settling, Back, Undoing, Ending, Over, Closed, Steps,
            Alike, SamePorts, SameRules, SameSession, SameStanding
<1>0. r \in OpType /\ TypeOK
      BY DEF CallsInv, TypeOK
<1> DEFINE rec(ok) == [r EXCEPT !.complete = r.complete /\ ok, !.pc = "cleanup"]
<1>1. /\ host' = host /\ r.pc = "revert" /\ r.committed
      /\ faults' = faults \/ faults' = faults + 1
      BY DEF Revert, At, Fine, Upset, CallsInv, CallInv
<1>2. /\ SamePorts(r, s) /\ SameRules(r, s) /\ SameSession(r, s) /\ s.todo = r.todo
      /\ s.committed = r.committed /\ s.restored = r.restored /\ s.proved = r.proved
      /\ s.pc = "cleanup"
      /\ \/ s.complete = r.complete /\ record' = r.old
         \/ ~s.complete
  <2>1. PICK ok \in BOOLEAN : Becomes(o, rec(ok)) /\ (ok => record' = r.old)
        BY DEF Revert
  <2> DEFINE whole == r.complete /\ ok
  <2> HIDE DEF whole
  <2>2. s = [r EXCEPT !.complete = whole, !.pc = "cleanup"]
        BY <1>0, <2>1 DEF Becomes, TypeOK, whole
  <2>3. SamePorts(r, s) /\ SameRules(r, s) /\ SameSession(r, s) /\ s.todo = r.todo
        BY <1>0, <2>2 DEF OpType
  <2>4. /\ s.committed = r.committed /\ s.restored = r.restored /\ s.proved = r.proved
        /\ s.complete = whole /\ s.pc = "cleanup"
        BY <1>0, <2>2 DEF OpType
  <2>5. r.complete \in BOOLEAN
        BY <1>0 DEF OpType
  <2> QED BY <2>1, <2>3, <2>4, <2>5 DEF whole
<1>3. CallInv(o)'
      BY <1>0, <1>1, <1>2 DEF CallsInv, CallInv, host, TypeOK
<1>4. FilesInv(o)'
      BY <1>0, <1>1, <1>2 DEF CallsInv, CallInv, FilesInv, Found, host, TypeOK, Configured
<1>5. WallsInv(o)'
      BY <1>0, <1>1, <1>2 DEF CallsInv, CallInv, FilesInv, WallsInv, AllAdmit, host
<1>6. UpsetInv(o)'
      BY <1>0, <1>1, <1>2 DEF CallsInv, CallInv, FilesInv, WallsInv, UpsetInv, AllAdmit, Stays, TypeOK, host
<1>7. SafeInv(o)'
      BY <1>0, <1>1, <1>2 DEF CallsInv, CallInv, FilesInv, WallsInv, UpsetInv, SafeInv, AllAdmit, Stays, TypeOK, host
<1> QED BY <1>3, <1>4, <1>5, <1>6, <1>7

LEMMA CleanupKeeps ==
    ASSUME NEW o \in Ops, CallsInv(o), Cleanup(o)
    PROVE  CallInv(o)' /\ FilesInv(o)' /\ WallsInv(o)' /\ UpsetInv(o)' /\ SafeInv(o)'
<1> DEFINE r == op[o]
           s == op'[o]
<1> USE DEF Early, Onward, Settling, Back, Undoing, Ending, Over, Closed, Steps,
            Alike, SamePorts, SameRules, SameSession, SameStanding
<1>0. r \in OpType /\ TypeOK
      BY DEF CallsInv, TypeOK
<1>1. /\ conf' = conf /\ live' = live /\ record' = record /\ r.pc = "cleanup"
      /\ faults' = faults \/ faults' = faults + 1
      BY DEF Cleanup, At, Works, Fails, Upset, Fine
<1>2. \/ allow' = allow /\ Alike(r, s) /\ s.pc = "failed"
      \/ \E w \in r.todo :
            /\ r.complete
            /\ SamePorts(r, s) /\ s.spoilt = r.spoilt /\ SameSession(r, s) /\ SameStanding(r, s)
            /\ s.pc = r.pc /\ s.todo = r.todo \ {w} /\ s.overlooked = r.overlooked
            /\ \/ /\ allow'[w] = allow[w] \ {r.new} /\ \A v \in Walls \ {w} : allow'[v] = allow[v]
                  /\ s.added = r.added \ {w} \/ s.added = r.added
               \/ allow' = allow /\ s.added = r.added
  <2>1. CASE CleanedBy(o) = {}
        BY <1>0, <2>1, GoesOn DEF Cleanup
  <2>2. CASE CleanedBy(o) # {}
    <3>1. PICK w \in CleanedBy(o) :
             \/ /\ SetAllow(w, allow[w] \ {r.new})
                /\ Becomes(o, [r EXCEPT !.todo = r.todo \ {w}, !.added = r.added \ {w}])
             \/ /\ UNCHANGED allow \/ SetAllow(w, allow[w] \ {r.new})
                /\ Becomes(o, [r EXCEPT !.todo = r.todo \ {w}])
          BY <2>2 DEF Cleanup, Works, Fails
    <3>2. w \in r.todo /\ w \in Walls /\ r.complete
          BY <1>0, <2>2 DEF CleanedBy, OpType
    <3>3. CASE /\ SetAllow(w, allow[w] \ {r.new})
               /\ Becomes(o, [r EXCEPT !.todo = r.todo \ {w}, !.added = r.added \ {w}])
      <4>1. s = [r EXCEPT !.todo = r.todo \ {w}, !.added = r.added \ {w}]
            BY <1>0, <3>3 DEF Becomes, TypeOK
      <4>2. /\ SamePorts(r, s) /\ s.spoilt = r.spoilt /\ SameSession(r, s) /\ SameStanding(r, s)
            /\ s.pc = r.pc /\ s.todo = r.todo \ {w} /\ s.added = r.added \ {w}
            /\ s.overlooked = r.overlooked
            BY <1>0, <4>1 DEF OpType
      <4> QED BY <1>0, <3>2, <3>3, <4>2, RuleSet
    <3>4. CASE /\ UNCHANGED allow \/ SetAllow(w, allow[w] \ {r.new})
               /\ Becomes(o, [r EXCEPT !.todo = r.todo \ {w}])
      <4>1. s = [r EXCEPT !.todo = r.todo \ {w}]
            BY <1>0, <3>4 DEF Becomes, TypeOK
      <4>2. Alike(r, s) /\ s.pc = r.pc /\ s.todo = r.todo \ {w}
            BY <1>0, <4>1 DEF OpType
      <4> QED BY <1>0, <3>2, <3>4, <4>2, RuleSet
    <3> QED BY <3>1, <3>3, <3>4
  <2> QED BY <2>1, <2>2
<1>3. r.complete => AllAdmit(r.old) /\ Stays(r.old)
      BY RestoredServes DEF CallsInv, CallInv, WallsInv
<1>20. /\ SamePorts(r, s) /\ SameSession(r, s) /\ SameStanding(r, s)
       /\ s.pc \in {"cleanup", "failed"}
      BY <1>1, <1>2
<1>21. faults \in Nat
      BY <1>0 DEF TypeOK
<1>4. CallInv(o)'
      BY <1>0, <1>1, <1>2, <1>3 DEF CallsInv, CallInv, TypeOK
<1>5. FilesInv(o)'
      BY <1>1, <1>20, <1>21 DEF CallsInv, CallInv, FilesInv, Found
<1>6. WallsInv(o)'
      BY <1>0, <1>1, <1>2, <1>3 DEF CallsInv, CallInv, FilesInv, WallsInv, AllAdmit
<1>7. UpsetInv(o)'
      BY <1>0, <1>1, <1>2, <1>3 DEF CallsInv, CallInv, FilesInv, WallsInv, UpsetInv, AllAdmit, Stays, TypeOK
<1>8. SafeInv(o)'
      BY <1>0, <1>1, <1>2, <1>3 DEF CallsInv, CallInv, FilesInv, WallsInv, UpsetInv, SafeInv, AllAdmit, Stays, TypeOK
<1> QED BY <1>4, <1>5, <1>6, <1>7, <1>8

LEMMA RebootKeeps ==
    ASSUME NEW o \in Ops, CallsInv(o), Reboot
    PROVE  CallInv(o)' /\ FilesInv(o)' /\ WallsInv(o)' /\ UpsetInv(o)' /\ SafeInv(o)'
<1> DEFINE r == op[o]
           s == op'[o]
<1> USE DEF Early, Onward, Settling, Back, Undoing, Ending, Over, Closed, Steps,
            Alike, SamePorts, SameRules, SameSession, SameStanding
<1>0. r \in OpType /\ TypeOK
      BY DEF CallsInv, TypeOK
<1>1. /\ conf' = conf /\ allow' = allow /\ record' = record
      /\ live' = Configured(conf) /\ faults' = faults + 1
      BY DEF Reboot, Upset
<1>2. /\ SamePorts(r, s) /\ SameRules(r, s) /\ SameStanding(r, s)
      /\ s.pc = r.pc /\ s.todo = r.todo /\ s.sock = r.sock /\ s.via = r.via
      /\ ~s.ctl /\ ~s.fall
  <2>1. s = [r EXCEPT !.ctl = FALSE, !.fall = FALSE]
        BY DEF Reboot
  <2>2. SamePorts(r, s) /\ SameRules(r, s) /\ SameStanding(r, s)
        BY <1>0, <2>1 DEF OpType
  <2>3. /\ s.pc = r.pc /\ s.todo = r.todo /\ s.sock = r.sock /\ s.via = r.via
        /\ ~s.ctl /\ ~s.fall
        BY <1>0, <2>1 DEF OpType
  <2> QED BY <2>2, <2>3
<1>3. r.want # {} => r.old \in Configured(conf) \/ r.new \in Configured(conf)
      BY OneServed DEF CallsInv
<1>4. r.pc \in Settling => Stays(r.new)
      BY SettledServes DEF CallsInv
<1>5. r.restored /\ (r.complete \/ ~(faults > 1)) => Stays(r.old)
      BY RestoredServes DEF CallsInv
<1>6. faults \in Nat
      BY <1>0 DEF TypeOK
<1>20. r.pc \in {"verify"} \cup Settling => r.new \in Configured(conf)
      BY DEF CallsInv, CallInv, FilesInv, Configured
<1>21. conf.bysock /\ r.want # {} => conf.sock = {} \/ r.new \in Configured(conf)
      BY DEF CallsInv, CallInv, FilesInv, Configured
<1>22. /\ r.want = {} => live' = live
       /\ r.complete /\ r.want # {} => live' = live
       /\ conf.bysock /\ r.sock # "yes" => live' = live
      BY <1>1 DEF CallsInv, FilesInv
<1>7. CallInv(o)'
      BY <1>0, <1>1, <1>2, <1>3, <1>4, <1>5, <1>6 DEF CallsInv, CallInv
<1>8. FilesInv(o)'
      BY <1>1, <1>2, <1>3, <1>6, <1>20, <1>21, <1>22, SMTT(30) DEF CallsInv, CallInv, FilesInv, Found
<1>9. WallsInv(o)'
      BY <1>0, <1>1, <1>2, <1>3, <1>4, <1>5, <1>6 DEF CallsInv, CallInv, FilesInv, WallsInv, AllAdmit
<1>10. UpsetInv(o)'
      BY <1>0, <1>1, <1>2, <1>3, <1>4, <1>5, <1>6 DEF CallsInv, CallInv, FilesInv, WallsInv, UpsetInv, AllAdmit, Stays, TypeOK
<1>11. SafeInv(o)'
      BY <1>0, <1>1, <1>2, <1>3, <1>4, <1>5, <1>6 DEF CallsInv, CallInv, FilesInv, WallsInv, UpsetInv, SafeInv, AllAdmit, Stays, TypeOK
<1> QED BY <1>7, <1>8, <1>9, <1>10, <1>11

LEMMA PanelDiesKeeps ==
    ASSUME NEW o \in Ops, CallsInv(o), PanelDies
    PROVE  CallInv(o)' /\ FilesInv(o)' /\ WallsInv(o)' /\ UpsetInv(o)' /\ SafeInv(o)'
<1> DEFINE r == op[o]
           s == op'[o]
<1> USE DEF Early, Onward, Settling, Back, Undoing, Ending, Over, Closed, Steps,
            Alike, SamePorts, SameRules, SameSession, SameStanding
<1>0. r \in OpType /\ TypeOK
      BY DEF CallsInv, TypeOK
<1>1. host' = host /\ record' = record /\ faults' = faults + 1
      BY DEF PanelDies, Upset
<1>2. /\ Alike(r, s) /\ s.todo = r.todo
      /\ s.pc = r.pc \/ (s.pc = "dead" /\ r.pc # "idle")
  <2>1. CASE ~Running(o)
        BY <2>1 DEF PanelDies
  <2>2. CASE Running(o)
    <3>1. s = [r EXCEPT !.pc = "dead"]
          BY <2>2 DEF PanelDies
    <3> QED BY <1>0, <2>2, <3>1 DEF OpType, Running, At
  <2> QED BY <2>1, <2>2
<1>3. faults \in Nat
      BY <1>0 DEF TypeOK
<1>4. CallInv(o)'
      BY <1>0, <1>1, <1>2, <1>3 DEF CallsInv, CallInv, host
<1>5. FilesInv(o)'
      BY <1>0, <1>1, <1>2, <1>3 DEF CallsInv, CallInv, FilesInv, Found, host
<1>6. WallsInv(o)'
      BY <1>0, <1>1, <1>2, <1>3 DEF CallsInv, CallInv, FilesInv, WallsInv, AllAdmit, host
<1>7. UpsetInv(o)'
      BY <1>0, <1>1, <1>2, <1>3 DEF CallsInv, CallInv, FilesInv, WallsInv, UpsetInv, AllAdmit, Stays, TypeOK, host
<1>8. SafeInv(o)'
      BY <1>0, <1>1, <1>2, <1>3 DEF CallsInv, CallInv, FilesInv, WallsInv, UpsetInv, SafeInv, AllAdmit, Stays, TypeOK, host
<1> QED BY <1>4, <1>5, <1>6, <1>7, <1>8

LEMMA InitKeeps ==
    ASSUME NEW o \in Ops, Init, \A c \in Hosts : c.bysock => c.sock = {}
    PROVE  CallsInv(o)
<1> USE DEF Early, Onward, Settling, Back, Undoing, Ending, Over, Closed, Steps
<1>1. TypeOK
      BY InitType
<1>2. /\ op[o].pc = "idle" /\ op[o].old = record /\ op[o].want = {} /\ op[o].added = {} /\ op[o].overlooked = {}
      /\ op[o].via = "ctl" /\ op[o].sock = "unbound"
      /\ ~op[o].ctl /\ ~op[o].fall /\ ~op[o].committed /\ ~op[o].spoilt
      /\ ~op[o].restored /\ ~op[o].proved /\ ~op[o].complete
      BY DEF Init
<1>3. /\ live = Configured(conf) /\ record \in live
      /\ conf.bysock => conf.sock = {}
      /\ \A w \in Walls : record \in allow[w]
  <2>1. \A w \in Walls : allow[w] \in {{record}, {record, Base}, Ports}
        BY DEF Init
  <2>2. record \in Ports
        BY <1>1 DEF TypeOK
  <2> QED BY <2>1, <2>2 DEF Init
<1>4. CallInv(o)
      BY <1>2 DEF CallInv
<1>5. FilesInv(o)
      BY <1>2, <1>3 DEF FilesInv, Found
<1>6. WallsInv(o) /\ UpsetInv(o)
      BY <1>2, <1>3 DEF WallsInv, UpsetInv, AllAdmit
<1>7. AllAdmit(op[o].old) /\ Stays(op[o].old)
      BY <1>2, <1>3 DEF AllAdmit, Stays
<1>8. SafeInv(o)
      BY <1>7 DEF SafeInv
<1> QED BY <1>1, <1>4, <1>5, <1>6, <1>8 DEF CallsInv

LEMMA ProceedKeeps ==
    ASSUME NEW o \in Ops, CallsInv(o), Proceed(o) \/ \E p \in Ports : Begin(o, p)
    PROVE  CallInv(o)' /\ FilesInv(o)' /\ WallsInv(o)' /\ UpsetInv(o)' /\ SafeInv(o)'
<1>1. ASSUME NEW p \in Ports, Begin(o, p)
      PROVE  CallInv(o)' /\ FilesInv(o)' /\ WallsInv(o)' /\ UpsetInv(o)' /\ SafeInv(o)'
      BY <1>1, BeginKeeps
<1>2. ASSUME NEW w \in Walls, \/ OpenNew(o, w) \/ Unopen(o, w) \/ CloseOld(o, w)
                              \/ ReopenOld(o, w) \/ Unreopen(o, w)
      PROVE  CallInv(o)' /\ FilesInv(o)' /\ WallsInv(o)' /\ UpsetInv(o)' /\ SafeInv(o)'
      BY <1>2, OpenNewKeeps, UnopenKeeps, CloseOldKeeps, ReopenOldKeeps, UnreopenKeeps
<1>3. CASE \/ Connect(o) \/ Preflight(o) \/ Snapshot(o) \/ Write(o) \/ SocketAsked(o)
           \/ ListenBySocket(o) \/ Reload(o) \/ CheckListeners(o) \/ Verify(o)
      BY <1>3, ConnectKeeps, PreflightKeeps, SnapshotKeeps, WriteKeeps, SocketAskedKeeps,
         ListenBySocketKeeps, ReloadKeeps, CheckListenersKeeps, VerifyKeeps
<1>4. CASE \/ Commit(o) \/ Final(o) \/ Preclear(o) \/ Fallback(o) \/ RestoreFile(o)
           \/ RestoreSocket(o) \/ RestoreReload(o) \/ RestoreVerify(o) \/ RestoreListen(o)
           \/ Revert(o) \/ Cleanup(o)
      BY <1>4, CommitKeeps, FinalKeeps, PreclearKeeps, FallbackKeeps, RestoreFileKeeps,
         RestoreSocketKeeps, RestoreReloadKeeps, RestoreVerifyKeeps, RestoreListenKeeps,
         RevertKeeps, CleanupKeeps
<1> QED BY <1>1, <1>2, <1>3, <1>4 DEF Proceed

LEMMA NextKeeps ==
    ASSUME NEW o, Ops = {o}, CallsInv(o), [Next]_vars
    PROVE  CallsInv(o)'
<1>1. TypeOK'
      BY NextType DEF CallsInv
<1>2. CASE UNCHANGED vars
      BY <1>1, <1>2 DEF vars, CallsInv, CallInv, FilesInv, WallsInv, UpsetInv, SafeInv, Found,
                        Configured, AllAdmit, Stays
<1>3. CASE Next
      BY <1>1, <1>3, ProceedKeeps, RebootKeeps, PanelDiesKeeps DEF Next, CallsInv
<1> QED BY <1>2, <1>3

-----------------------------------------------------------------------------
(* What follows.                                                            *)

\* Whatever one upset interrupts in a change of the port, some port is listened
\* on and admitted by every firewall: on hosts whose ssh.socket was not moved
\* before (on one that was, the way back takes the panel's drop-in away).
THEOREM NeverShutOut ==
    ASSUME NEW o, Ops = {o}, \A c \in Hosts : c.bysock => c.sock = {}
    PROVE  Spec => []NeverLockedOut
<1>1. Init => CallsInv(o)
      BY InitKeeps
<1>2. CallsInv(o) /\ [Next]_vars => CallsInv(o)'
      BY NextKeeps
<1>3. CallsInv(o) => NeverLockedOut
  <2> SUFFICES ASSUME CallsInv(o), faults <= 1 PROVE Enterable
      BY DEF NeverLockedOut
  <2>1. op[o].old \in Ports /\ op[o].new \in Ports
        BY DEF CallsInv, TypeOK, OpType
  <2>2. op[o].want # {} => op[o].old \in live \/ op[o].new \in live
        BY DEF CallsInv, FilesInv
  <2>3. Door(op[o].old) \/ Door(op[o].new)
        BY <2>2 DEF CallsInv, SafeInv, AllAdmit, Stays, Door
  <2> QED BY <2>1, <2>3 DEF Enterable
<1> QED BY <1>1, <1>2, <1>3, PTL DEF Spec

\* A rollback reported as complete has put back listeners, record, files and
\* rules, whatever went wrong on the way, on the same hosts; but for a rule the
\* call still names as its own and one whose refused opening took effect.
THEOREM RollbackHolds ==
    ASSUME NEW o, Ops = {o}, \A c \in Hosts : c.bysock => c.sock = {}
    PROVE  Spec => []RollbackIsReal
<1>1. Init => CallsInv(o)
      BY InitKeeps
<1>2. CallsInv(o) /\ [Next]_vars => CallsInv(o)'
      BY NextKeeps
<1>3. CallsInv(o) => RollbackIsReal
  <2> DEFINE r == op[o]
  <2> SUFFICES ASSUME CallsInv(o), r.pc = "cleanup", r.complete
               PROVE  /\ live = r.before.live /\ record = r.old
                      /\ conf.drop = r.snap \/ r.want = {}
                      /\ \A w \in Walls : r.before.allow[w] =
                           IF w \in r.added \cup r.overlooked
                           THEN allow[w] \ {r.new} ELSE allow[w]
      BY DEF RollbackIsReal
  <2> USE DEF CallsInv, Back, Undoing, Steps
  <2>1. r.restored /\ r.proved /\ r.old # r.new
        BY DEF CallInv
  <2>2. live = r.before.live /\ (conf.drop = r.snap \/ r.want = {})
    <3>1. CASE r.want = {}
          BY <3>1 DEF FilesInv
    <3>2. CASE r.want # {}
          BY <2>1, <3>2, FoundAgain DEF FilesInv
    <3> QED BY <3>1, <3>2
  <2> DEFINE panels == r.added \cup r.overlooked
  <2>3. record = r.old /\ \A w \in Walls : r.old \in allow[w]
        BY <2>1 DEF WallsInv, AllAdmit
  <2>4. ASSUME NEW w \in Walls
        PROVE  r.before.allow[w] = IF w \in panels THEN allow[w] \ {r.new} ELSE allow[w]
    <3>1. r.before.allow[w] =
             (IF w \in panels THEN allow[w] \ {r.new} ELSE allow[w]) \cup {r.old}
          BY DEF WallsInv
    <3>2. r.old \in IF w \in panels THEN allow[w] \ {r.new} ELSE allow[w]
          BY <2>1, <2>3
    <3> QED BY <3>1, <3>2
  <2> QED BY <2>2, <2>3, <2>4
<1> QED BY <1>1, <1>2, <1>3, PTL DEF Spec

\* A step takes from a firewall what the call itself added, or the old port once
\* the new one is recorded.
LEMMA TakesItsOwn ==
    ASSUME NEW o \in Ops, CallsInv(o), Proceed(o), NEW w \in Walls, NEW p \in allow[w] \ allow'[w]
    PROVE  /\ Running(o)
           /\ \/ p = op[o].new /\ p \notin op[o].before.allow[w]
              \/ p = op[o].old /\ op[o].committed
<1> DEFINE r == op[o]
<1> USE DEF Running, Closed, Steps, At, Works, Fails
<1>0. TypeOK /\ r \in OpType
      BY DEF CallsInv, TypeOK
<1>1. r.todo \subseteq Walls
      BY <1>0 DEF OpType
<1>2. allow' # allow
      OBVIOUS
<1>3. PICK v \in Walls :
         \/ OpenNew(o, v) \/ Unopen(o, v) \/ CloseOld(o, v) \/ ReopenOld(o, v) \/ Unreopen(o, v)
         \/ v \in CleanedBy(o) /\ At(o, "cleanup") /\ SetAllow(v, allow[v] \ {r.new})
  <2>1. CASE Cleanup(o)
        BY <1>1, <1>2, <2>1 DEF Cleanup, CleanedBy
  <2>2. CASE \E v \in Walls : \/ OpenNew(o, v) \/ Unopen(o, v) \/ CloseOld(o, v)
                              \/ ReopenOld(o, v) \/ Unreopen(o, v)
        BY <2>2
  <2>3. ASSUME \/ Connect(o) \/ Preflight(o) \/ Snapshot(o) \/ SocketAsked(o)
               \/ CheckListeners(o) \/ Verify(o) \/ Commit(o) \/ Final(o) \/ Fallback(o)
               \/ RestoreVerify(o) \/ RestoreListen(o) \/ Revert(o)
        PROVE  FALSE
        BY <1>2, <2>3 DEF Connect, Preflight, Snapshot, SocketAsked, CheckListeners, Verify,
                          Commit, Final, Fallback, RestoreVerify, RestoreListen, Revert, host
  <2>4. ASSUME \/ Write(o) \/ ListenBySocket(o) \/ Reload(o) \/ Preclear(o)
               \/ RestoreFile(o) \/ RestoreSocket(o) \/ RestoreReload(o)
        PROVE  FALSE
        BY <1>2, <2>4 DEF Write, ListenBySocket, Reload, Preclear, RestoreFile, RestoreSocket,
                          RestoreReload
  <2> QED BY <2>1, <2>2, <2>3, <2>4 DEF Proceed
<1>4. ASSUME OpenNew(o, v) \/ ReopenOld(o, v)
      PROVE  FALSE
  <2>1. \/ allow' = allow \/ SetAllow(v, allow[v]) \/ SetAllow(v, allow[v] \cup {r.new})
        \/ SetAllow(v, allow[v] \cup {r.old})
        BY <1>4 DEF OpenNew, ReopenOld
  <2> QED BY <1>0, <2>1, RuleSet
<1>5. CASE Unopen(o, v) \/ (v \in CleanedBy(o) /\ At(o, "cleanup") /\ SetAllow(v, allow[v] \ {r.new}))
  <2>1. /\ v \in r.added /\ r.pc \in {"unopen", "cleanup"}
        /\ allow' = allow \/ SetAllow(v, allow[v] \ {r.new})
        BY <1>5 DEF Unopen, CleanedBy, CallsInv, WallsInv
  <2>2. w = v /\ p = r.new
        BY <1>0, <2>1, RuleSet
  <2>3. r.new \notin r.before.allow[v]
        BY <2>1 DEF CallsInv, WallsInv
  <2> QED BY <2>1, <2>2, <2>3
<1>6. CASE CloseOld(o, v) \/ Unreopen(o, v)
  <2>1. /\ r.pc \in {"close", "unreopen"}
        /\ allow' = allow \/ SetAllow(v, allow[v] \ {r.old})
        BY <1>6 DEF CloseOld, Unreopen
  <2>2. w = v /\ p = r.old
        BY <1>0, <2>1, RuleSet
  <2>3. r.committed
        BY <2>1 DEF CallsInv, CallInv
  <2> QED BY <2>1, <2>2, <2>3
<1> QED BY <1>3, <1>4, <1>5, <1>6

\* A change of the port takes from the firewalls only what it added itself and,
\* once the new port is recorded, the old one.
THEOREM RulesStay ==
    ASSUME NEW call, Ops = {call}, \A c \in Hosts : c.bysock => c.sock = {}
    PROVE  Spec => OthersRulesStay
<1>1. Init => CallsInv(call)
      BY InitKeeps
<1>2. CallsInv(call) /\ [Next]_vars => CallsInv(call)'
      BY NextKeeps
<1>3. ASSUME CallsInv(call), [Next]_vars
      PROVE  [\A w \in Walls : \A p \in allow[w] \ allow'[w] : \E o \in Ops :
                /\ Running(o)
                /\ \/ p = op[o].new /\ p \notin op[o].before.allow[w]
                   \/ p = op[o].old /\ op[o].committed]_vars
  <2>1. CASE Proceed(call)
        BY <1>3, <2>1, TakesItsOwn
  <2>2. CASE Reboot \/ PanelDies \/ \E p \in Ports : Begin(call, p)
        BY <2>2 DEF Reboot, PanelDies, Begin, host
  <2>3. CASE UNCHANGED vars
        BY <2>3
  <2> QED BY <1>3, <2>1, <2>2, <2>3 DEF Next
<1> QED BY <1>1, <1>2, <1>3, PTL DEF Spec, OthersRulesStay

=============================================================================
