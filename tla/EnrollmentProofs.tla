-------------------------- MODULE EnrollmentProofs --------------------------
(***************************************************************************)
(* Theorems about Enrollment for any machines, tokens, pool and faults,    *)
(* and any order of the steps of requests, rollbacks, removals and stops.  *)
(***************************************************************************)
EXTENDS Enrollment, FiniteSetTheorems, TLAPS

Steps == {"not yet", "let in", "given", "wired", "rowed", "spent", "enrolled", "refused"}
AnyToken == CHOOSE t \in Tokens : TRUE
Attempt == [step : Steps, token : Tokens \cup {AnyToken}, ip : Pool \cup {0}]
TokenRow == {{}, {FreshToken}} \cup {{[by |-> {m}]} : m \in Machines}
Undo == [node : Machines, how : {"rollback", "remove"}, ip : Pool \cup {0}, wired : BOOLEAN]

WireTyped ==
    /\ wire \in [keys : SUBSET Machines, to : [Pool -> Machines \cup {NoOwner}]]
    /\ \A a \in Pool : wire.to[a] \in wire.keys \cup {NoOwner}

Typed ==
    /\ token \in [Tokens -> TokenRow]
    /\ enrolling \in [Machines -> Attempt]
    /\ nodeIP \in [Machines -> Pool \cup {0}] /\ peerIP \in [Machines -> Pool \cup {0}]
    /\ WireTyped
    /\ undoing \subseteq Undo
    /\ crossed \subseteq Machines /\ slipped \subseteq Machines /\ faults \in 0 .. MaxFaults

\* What a machine was given is the only address it ever has, in its rows, on the
\* interface and in the hands of who takes it back.
OwnRows(m) ==
    /\ nodeIP[m] \in {0, enrolling[m].ip} /\ peerIP[m] \in {0, enrolling[m].ip}
    /\ nodeIP[m] # 0 => enrolling[m].step \in {"rowed", "spent", "enrolled", "refused"}
    /\ peerIP[m] # 0 => enrolling[m].step = "enrolled"
    /\ enrolling[m].step \in {"not yet", "let in"} => enrolling[m].ip = 0
    /\ Underway(m) \/ enrolling[m].step = "enrolled" => enrolling[m].ip # 0
RowsOwn == \A m \in Machines : OwnRows(m)
UndoingOwn ==
    \A u \in undoing :
        /\ u.ip \in {0, enrolling[u.node].ip}
        /\ u.wired => u.ip # 0
        /\ enrolling[u.node].step \in {"rowed", "spent", "enrolled", "refused"}
WireOwn ==
    /\ \A a \in Pool : wire.to[a] # NoOwner => enrolling[wire.to[a]].ip = a
    /\ \A m \in wire.keys : enrolling[m].step \notin {"not yet", "let in", "given"}

\* Who has an address: a request under way, a row, or who takes it back.
Holds(m, a) ==
    /\ enrolling[m].ip = a
    /\ Underway(m) \/ nodeIP[m] # 0 \/ peerIP[m] # 0 \/ \E u \in undoing : u.node = m /\ u.ip = a

\* That two machines have one address is on record.
SharingIsKnown ==
    \A m, n \in Machines : \A a \in Pool : m # n /\ Holds(m, a) /\ Holds(n, a) => m \in crossed

Unnoticed(m) == m \notin slipped \cup crossed
Undone(m) == \E u \in undoing : u.node = m

\* A key that is on the interface for no fault has its address, a row or a request
\* that goes on, and whoever takes it back has yet to take it off the interface.
KeyLeads(m) ==
    /\ enrolling[m].ip \in Pool /\ wire.to[enrolling[m].ip] = m
    /\ \A u \in undoing : u.node = m => u.wired
    /\ nodeIP[m] # 0 \/ enrolling[m].step = "wired"
    /\ enrolling[m].step = "enrolled" => peerIP[m] # 0
KeysLead == \A m \in wire.keys : Unnoticed(m) => KeyLeads(m)

\* A node, and a request about to write its row, has its key on the interface.
NodesLead ==
    \A m \in Machines :
        (enrolling[m].step = "wired" \/ nodeIP[m] # 0) /\ ~Undone(m) /\ Unnoticed(m) => m \in wire.keys

EnrollInv == Typed /\ RowsOwn /\ UndoingOwn /\ WireOwn /\ SharingIsKnown /\ KeysLead /\ NodesLead

LEMMA EnrollBounds == PoolSize \in Nat \ {0} /\ MaxFaults \in Nat /\ NoOwner \notin Machines
BY EnrollmentAssumption

LEMMA NoFaultYet == 0 \in 0 .. MaxFaults
BY EnrollBounds

LEMMA PoolIsNatural == 0 \notin Pool /\ Pool \subseteq Nat
BY EnrollBounds DEF Pool

LEMMA EnrollInvInit == EnrollInit => EnrollInv
<1> SUFFICES ASSUME EnrollInit PROVE EnrollInv
  OBVIOUS
<1> USE EnrollBounds DEF EnrollInit
<1>1. Typed
  <2>1. token \in [Tokens -> TokenRow]
    BY DEF TokenRow
  <2>2. enrolling \in [Machines -> Attempt]
    BY DEF Attempt, Steps, AnyToken
  <2>3. WireTyped
    BY DEF WireTyped
  <2>4. 0 \in 0 .. MaxFaults
    BY NoFaultYet
  <2>5. QED
    BY <2>1, <2>2, <2>3, <2>4 DEF Typed
<1>2. RowsOwn /\ UndoingOwn /\ WireOwn
  BY DEF RowsOwn, OwnRows, UndoingOwn, WireOwn, Underway
<1>3. SharingIsKnown
  BY PoolIsNatural DEF SharingIsKnown, Holds
<1>4. KeysLead /\ NodesLead
  BY DEF KeysLead, NodesLead
<1>5. QED
  BY <1>1, <1>2, <1>3, <1>4 DEF EnrollInv

-----------------------------------------------------------------------------

\* What a step of a request does to the attempts.
LEMMA AttemptMoves ==
    ASSUME Typed, NEW m \in Machines, NEW s \in Steps, EnrollAt(m, s)
    PROVE  /\ enrolling' \in [Machines -> Attempt]
           /\ enrolling'[m].step = s
           /\ \A n \in Machines : enrolling'[n].ip = enrolling[n].ip
           /\ \A n \in Machines \ {m} : enrolling'[n] = enrolling[n]
<1>1. enrolling \in [Machines -> Attempt]
  BY DEF Typed
<1>2. enrolling' = [enrolling EXCEPT ![m] = [enrolling[m] EXCEPT !.step = s]]
  BY <1>1 DEF EnrollAt
<1>3. [enrolling[m] EXCEPT !.step = s] \in Attempt
  BY <1>1 DEF Attempt
<1>4. QED
  BY <1>1, <1>2, <1>3 DEF Attempt

\* Two machines come to have one address only when one is given it.
LEMMA SharingKept ==
    ASSUME SharingIsKnown, crossed \subseteq crossed',
           \A m \in Machines : \A a \in Pool : Holds(m, a)' => Holds(m, a)
    PROVE  SharingIsKnown'
BY DEF SharingIsKnown

\* A request goes on or is refused, before it has a row, or uses its token.
LEMMA RequestMoves ==
    ASSUME EnrollInv, NEW m \in Machines, NEW s \in Steps,
           token' \in [Tokens -> TokenRow], enrolling' \in [Machines -> Attempt],
           enrolling'[m].step = s, \A n \in Machines : enrolling'[n].ip = enrolling[n].ip,
           \A n \in Machines \ {m} : enrolling'[n] = enrolling[n],
           faults' \in 0 .. MaxFaults, UNCHANGED <<nodeIP, peerIP, wire, undoing, crossed, slipped>>,
           \/ enrolling[m].step = "not yet" /\ s = "let in"
           \/ enrolling[m].step \in {"let in", "given"} /\ s = "refused"
           \/ enrolling[m].step = "rowed" /\ s = "spent"
    PROVE  EnrollInv'
<1> USE DEF EnrollInv
<1>1. Typed'
  BY DEF Typed, WireTyped
<1>2. RowsOwn'
  BY DEF RowsOwn, OwnRows, Underway
<1>3. UndoingOwn'
  BY DEF UndoingOwn, Typed, Undo
<1>4. WireOwn'
  BY DEF WireOwn, Typed, WireTyped
<1>5. SharingIsKnown'
  <2>1. \A n \in Machines : \A a \in Pool : Holds(n, a)' => Holds(n, a)
    BY PoolIsNatural DEF Holds, Underway, RowsOwn, OwnRows
  <2>2. QED
    BY <2>1, SharingKept
<1>6. KeysLead'
  <2>1. ASSUME NEW n \in wire.keys, Unnoticed(n) PROVE KeyLeads(n)'
    <3>1. KeyLeads(n) /\ n \in Machines
      BY <2>1 DEF KeysLead, Typed, WireTyped
    <3>2. n # m \/ enrolling[m].step = "rowed"
      BY DEF WireOwn
    <3>3. QED
      BY <3>1, <3>2 DEF KeyLeads, Underway
  <2>2. QED
    BY <2>1 DEF KeysLead, Unnoticed
<1>7. NodesLead'
  BY DEF NodesLead, Undone, Unnoticed
<1>8. QED
  BY <1>1, <1>2, <1>3, <1>4, <1>5, <1>6, <1>7

\* The machine is given an address that no row has; whoever else has it in hand
\* is put on record with it.
LEMMA AllocateKeeps ==
    ASSUME EnrollInv, NEW m \in Machines, AllocateIP(m)
    PROVE  EnrollInv'
<1> USE DEF EnrollInv
<1>1. /\ enrolling[m].step = "let in" /\ enrolling \in [Machines -> Attempt]
      /\ UNCHANGED <<token, nodeIP, peerIP, wire, undoing, slipped, faults>>
  BY DEF AllocateIP, Typed
<1>2. CASE EnrollAt(m, "refused") /\ UNCHANGED crossed
  <2>1. "refused" \in Steps
    BY DEF Steps
  <2>2. QED
    BY <1>1, <1>2, <2>1, AttemptMoves, RequestMoves DEF Typed
<1>3. CASE \E a \in Pool \ TakenAddresses :
             /\ enrolling' = [enrolling EXCEPT ![m].step = "given", ![m].ip = a]
             /\ crossed' = IF Sharing(a) = {} THEN crossed ELSE crossed \cup Sharing(a) \cup {m}
  <2>1. PICK a \in Pool \ TakenAddresses :
             /\ enrolling' = [enrolling EXCEPT ![m].step = "given", ![m].ip = a]
             /\ crossed' = IF Sharing(a) = {} THEN crossed ELSE crossed \cup Sharing(a) \cup {m}
    BY <1>3
  <2>2. /\ enrolling' \in [Machines -> Attempt]
        /\ enrolling'[m].step = "given" /\ enrolling'[m].ip = a
        /\ \A n \in Machines \ {m} : enrolling'[n] = enrolling[n]
    BY <1>1, <2>1 DEF Attempt, Steps
  <2>3. /\ crossed' \subseteq Machines /\ crossed \subseteq crossed'
        /\ \A n \in Sharing(a) : n \in crossed' /\ m \in crossed'
    BY <2>1 DEF Typed, Sharing
  <2>4. /\ a # 0 /\ nodeIP[m] = 0 /\ peerIP[m] = 0 /\ m \notin wire.keys
        /\ \A u \in undoing : u.node # m
    BY <1>1, PoolIsNatural DEF RowsOwn, OwnRows, WireOwn, UndoingOwn
  <2>5. Typed'
    BY <1>1, <2>2, <2>3 DEF Typed, WireTyped
  <2>6. RowsOwn'
    BY <1>1, <2>2, <2>4 DEF RowsOwn, OwnRows, Underway
  <2>7. UndoingOwn'
    BY <1>1, <2>2, <2>4 DEF UndoingOwn, Typed, Undo
  <2>8. WireOwn'
    BY <1>1, <2>2, <2>4 DEF WireOwn, Typed, WireTyped
  <2>9. SharingIsKnown'
    <3>1. \A n \in Machines \ {m} : \A b \in Pool : Holds(n, b)' <=> Holds(n, b)
      BY <1>1, <2>2 DEF Holds, Underway
    <3>2. \A n \in Machines \ {m} : Holds(n, a) => n \in Sharing(a)
      BY <2>1 DEF Holds, Sharing, TakenAddresses, RowsOwn, OwnRows
    <3>3. \A b \in Pool : Holds(m, b)' => b = a
      BY <2>2 DEF Holds
    <3>4. ASSUME NEW n \in Machines, NEW o \in Machines, NEW b \in Pool, n # o, Holds(n, b)', Holds(o, b)'
          PROVE  n \in crossed'
      <4>1. CASE n = m
        BY <2>3, <3>1, <3>2, <3>3, <3>4, <4>1
      <4>2. CASE o = m
        BY <2>3, <3>1, <3>2, <3>3, <3>4, <4>2
      <4>3. CASE n # m /\ o # m
        BY <2>3, <3>1, <3>4, <4>3 DEF SharingIsKnown
      <4>4. QED
        BY <4>1, <4>2, <4>3
    <3>5. QED
      BY <3>4 DEF SharingIsKnown
  <2>10. KeysLead'
    <3>1. ASSUME NEW n \in wire.keys, Unnoticed(n)' PROVE KeyLeads(n)'
      <4>1. Unnoticed(n) /\ n \in Machines /\ n # m
        BY <1>1, <2>3, <2>4, <3>1 DEF Unnoticed, Typed, WireTyped
      <4>2. KeyLeads(n)
        BY <4>1 DEF KeysLead
      <4>3. QED
        BY <1>1, <2>2, <4>1, <4>2 DEF KeyLeads, Underway
    <3>2. QED
      BY <1>1, <3>1 DEF KeysLead
  <2>11. NodesLead'
    BY <1>1, <2>2, <2>3, <2>4 DEF NodesLead, Undone, Unnoticed
  <2>12. QED
    BY <2>5, <2>6, <2>7, <2>8, <2>9, <2>10, <2>11
<1>4. QED
  BY <1>2, <1>3 DEF AllocateIP

\* What the interface becomes.
LEMMA WiredTyped ==
    ASSUME WireTyped, NEW m \in Machines, NEW a \in Pool, wire' = Wired(m, a)
    PROVE  /\ WireTyped' /\ wire'.keys = wire.keys \cup {m}
           /\ wire'.to[a] = m /\ \A b \in Pool \ {a} : wire'.to[b] = wire.to[b]
BY DEF WireTyped, Wired

LEMMA UnwiredTyped ==
    ASSUME WireTyped, NEW ms, NoOwner \notin ms, wire' = Unwired(ms)
    PROVE  /\ WireTyped' /\ wire'.keys = wire.keys \ ms
           /\ \A b \in Pool : wire'.to[b] = IF wire.to[b] \in ms THEN NoOwner ELSE wire.to[b]
BY DEF WireTyped, Unwired

\* AddPeer: the address now leads to the machine, and from nobody else who has it
\* unknown to the other.
LEMMA AddPeerKeeps ==
    ASSUME EnrollInv, NEW m \in Machines, AddPeer(m)
    PROVE  EnrollInv'
<1> USE DEF EnrollInv
<1> DEFINE a == enrolling[m].ip
<1>1. /\ enrolling[m].step = "given" /\ enrolling \in [Machines -> Attempt]
      /\ UNCHANGED <<token, nodeIP, peerIP, undoing, crossed, slipped>>
      /\ "wired" \in Steps /\ "refused" \in Steps
  BY DEF AddPeer, Typed, Steps
<1>2. CASE Fault /\ EnrollAt(m, "refused") /\ UNCHANGED wire
  <2>1. faults' \in 0 .. MaxFaults
    BY <1>2, EnrollBounds DEF Fault, Typed
  <2>2. QED
    BY <1>1, <1>2, <2>1, AttemptMoves, RequestMoves DEF Typed
<1>3. CASE wire' = Wired(m, a) /\ EnrollAt(m, "wired") /\ UNCHANGED faults
  <2>1. /\ enrolling' \in [Machines -> Attempt] /\ enrolling'[m].step = "wired"
        /\ \A n \in Machines : enrolling'[n].ip = enrolling[n].ip
        /\ \A n \in Machines \ {m} : enrolling'[n] = enrolling[n]
    BY <1>1, <1>3, AttemptMoves
  <2>2. a \in Pool /\ Underway(m) /\ m # NoOwner
    BY <1>1, EnrollBounds DEF RowsOwn, OwnRows, Underway, Attempt
  <2>3. /\ WireTyped' /\ wire'.keys = wire.keys \cup {m}
        /\ wire'.to[a] = m /\ \A b \in Pool \ {a} : wire'.to[b] = wire.to[b]
    BY <1>3, <2>2, WiredTyped DEF Typed
  <2>4. Typed'
    BY <1>1, <1>3, <2>1, <2>3 DEF Typed
  <2>5. RowsOwn'
    BY <1>1, <2>1 DEF RowsOwn, OwnRows, Underway
  <2>6. UndoingOwn'
    BY <1>1, <2>1 DEF UndoingOwn, Typed, Undo
  <2>7. WireOwn'
    <3>1. ASSUME NEW b \in Pool, wire'.to[b] # NoOwner PROVE enrolling'[wire'.to[b]].ip = b
      <4>1. CASE b = a
        BY <2>1, <2>3, <4>1
      <4>2. CASE b # a
        <5>1. wire'.to[b] = wire.to[b] /\ wire.to[b] \in Machines
          BY <2>3, <3>1, <4>2 DEF Typed, WireTyped
        <5>2. QED
          BY <2>1, <3>1, <5>1 DEF WireOwn
      <4>3. QED
        BY <4>1, <4>2
    <3>2. QED
      BY <2>1, <2>3, <3>1 DEF WireOwn, Typed, WireTyped
  <2>8. SharingIsKnown'
    <3>1. \A n \in Machines : \A b \in Pool : Holds(n, b)' => Holds(n, b)
      BY <1>1, <2>1, <2>2 DEF Holds, Underway
    <3>2. QED
      BY <1>1, <3>1, SharingKept
  <2>9. KeysLead'
    <3>1. ASSUME NEW n \in wire'.keys, Unnoticed(n)' PROVE KeyLeads(n)'
      <4>1. Unnoticed(n) /\ n \in Machines
        BY <1>1, <2>3, <3>1 DEF Unnoticed, Typed, WireTyped
      <4>2. CASE n = m
        BY <1>1, <2>1, <2>2, <2>3, <4>2 DEF KeyLeads, Underway, UndoingOwn
      <4>3. CASE n # m
        <5>1. KeyLeads(n)
          BY <2>3, <3>1, <4>1, <4>3 DEF KeysLead
        <5>2. enrolling[n].ip # a
          <6>1. CASE enrolling[n].ip = a
            <7>1. Holds(n, a) /\ Holds(m, a)
              BY <2>2, <5>1, <6>1 DEF Holds, KeyLeads, Underway
            <7>2. n \in crossed
              BY <2>2, <4>1, <4>3, <7>1 DEF SharingIsKnown
            <7>3. QED
              BY <4>1, <7>2 DEF Unnoticed
          <6>2. QED
            BY <6>1
        <5>3. QED
          BY <1>1, <2>1, <2>3, <4>1, <4>3, <5>1, <5>2 DEF KeyLeads, Underway
      <4>4. QED
        BY <4>2, <4>3
    <3>2. QED
      BY <3>1 DEF KeysLead
  <2>10. NodesLead'
    BY <1>1, <2>1, <2>3 DEF NodesLead, Undone, Unnoticed
  <2>11. QED
    BY <2>4, <2>5, <2>6, <2>7, <2>8, <2>9, <2>10
<1>4. QED
  BY <1>2, <1>3 DEF AddPeer

\* Writing the row: the key is on the interface already.
LEMMA RowWritten ==
    ASSUME EnrollInv, NEW m \in Machines, enrolling[m].step = "wired", EnrollAt(m, "rowed"),
           nodeIP' = [nodeIP EXCEPT ![m] = enrolling[m].ip],
           UNCHANGED <<token, peerIP, wire, undoing, crossed, slipped, faults>>
    PROVE  EnrollInv'
<1> USE DEF EnrollInv
<1>1. /\ enrolling' \in [Machines -> Attempt] /\ enrolling'[m].step = "rowed"
      /\ \A n \in Machines : enrolling'[n].ip = enrolling[n].ip
      /\ \A n \in Machines \ {m} : enrolling'[n] = enrolling[n]
  BY AttemptMoves DEF Steps
<1>2. /\ nodeIP' \in [Machines -> Pool \cup {0}] /\ nodeIP'[m] = enrolling[m].ip
      /\ \A n \in Machines \ {m} : nodeIP'[n] = nodeIP[n]
      /\ enrolling[m].ip # 0
  BY DEF Typed, Attempt, RowsOwn, OwnRows, Underway
<1>3. Typed'
  BY <1>1, <1>2 DEF Typed, WireTyped
<1>4. RowsOwn'
  <2>1. peerIP[m] = 0
    BY DEF RowsOwn, OwnRows
  <2>2. OwnRows(m)'
    BY <1>1, <1>2, <2>1 DEF RowsOwn, OwnRows, Underway
  <2>3. \A n \in Machines \ {m} : OwnRows(n)'
    BY <1>1, <1>2 DEF RowsOwn, OwnRows, Underway
  <2>4. QED
    BY <2>2, <2>3 DEF RowsOwn
<1>5. UndoingOwn'
  BY <1>1 DEF UndoingOwn, Typed, Undo
<1>6. WireOwn'
  BY <1>1 DEF WireOwn, Typed, WireTyped
<1>7. SharingIsKnown'
  <2>1. \A n \in Machines : \A b \in Pool : Holds(n, b)' => Holds(n, b)
    BY <1>1, <1>2 DEF Holds, Underway
  <2>2. QED
    BY <2>1, SharingKept
<1>8. KeysLead'
  <2>1. ASSUME NEW n \in wire.keys, Unnoticed(n) PROVE KeyLeads(n)'
    <3>1. KeyLeads(n) /\ n \in Machines
      BY <2>1 DEF KeysLead, Typed, WireTyped
    <3>2. QED
      BY <1>1, <1>2, <3>1 DEF KeyLeads, Underway
  <2>2. QED
    BY <2>1 DEF KeysLead, Unnoticed
<1>9. NodesLead'
  BY <1>1, <1>2 DEF NodesLead, Undone, Unnoticed
<1>10. QED
  BY <1>3, <1>4, <1>5, <1>6, <1>7, <1>8, <1>9

\* Keys taken off the interface, of machines that had none to keep: the one whose
\* request is refused, or those a removal or a rollback names.
LEMMA KeysTakenOff ==
    ASSUME EnrollInv, NEW ms \in SUBSET Machines, wire' = Unwired(ms),
           enrolling' \in [Machines -> Attempt],
           \A n \in Machines : enrolling'[n].ip = enrolling[n].ip,
           \A n \in Machines \ ms : enrolling'[n] = enrolling[n]
    PROVE  /\ WireTyped' /\ wire'.keys = wire.keys \ ms
           /\ \A n \in Machines \ ms : \A b \in Pool : wire.to[b] = n => wire'.to[b] = n
           /\ \A b \in Pool : wire'.to[b] # NoOwner => enrolling'[wire'.to[b]].ip = b
<1>1. /\ WireTyped' /\ wire'.keys = wire.keys \ ms
      /\ \A b \in Pool : wire'.to[b] = IF wire.to[b] \in ms THEN NoOwner ELSE wire.to[b]
  BY UnwiredTyped, EnrollBounds DEF EnrollInv, Typed
<1>2. ASSUME NEW b \in Pool, wire'.to[b] # NoOwner PROVE enrolling'[wire'.to[b]].ip = b
  <2>1. wire'.to[b] = wire.to[b] /\ wire.to[b] \in Machines
    BY <1>1, <1>2 DEF EnrollInv, Typed, WireTyped
  <2>2. QED
    BY <1>2, <2>1 DEF EnrollInv, WireOwn
<1>3. QED
  BY <1>1, <1>2

\* A request is refused before it has a row, and its key taken off the interface.
LEMMA CleanUpKeeps ==
    ASSUME EnrollInv, NEW m \in Machines, enrolling[m].step = "wired", EnrollAt(m, "refused"),
           wire' = CleanedUp(m), faults' \in 0 .. MaxFaults,
           UNCHANGED <<token, nodeIP, peerIP, undoing, crossed, slipped>>
    PROVE  EnrollInv'
<1> USE DEF EnrollInv
<1>1. /\ enrolling' \in [Machines -> Attempt] /\ enrolling'[m].step = "refused"
      /\ \A n \in Machines : enrolling'[n].ip = enrolling[n].ip
      /\ \A n \in Machines \ {m} : enrolling'[n] = enrolling[n]
  BY AttemptMoves DEF Steps
<1>2. /\ WireTyped' /\ wire'.keys = wire.keys \ {m}
      /\ \A n \in Machines \ {m} : \A b \in Pool : wire.to[b] = n => wire'.to[b] = n
      /\ \A b \in Pool : wire'.to[b] # NoOwner => enrolling'[wire'.to[b]].ip = b
  BY <1>1, KeysTakenOff DEF CleanedUp
<1>3. nodeIP[m] = 0 /\ peerIP[m] = 0 /\ \A u \in undoing : u.node # m
  BY DEF RowsOwn, OwnRows, UndoingOwn
<1>4. Typed'
  BY <1>1, <1>2 DEF Typed
<1>5. RowsOwn'
  BY <1>1, <1>3 DEF RowsOwn, OwnRows, Underway
<1>6. UndoingOwn'
  BY <1>1 DEF UndoingOwn, Typed, Undo
<1>7. WireOwn'
  BY <1>1, <1>2 DEF WireOwn, Typed, WireTyped
<1>8. SharingIsKnown'
  <2>1. \A n \in Machines : \A b \in Pool : Holds(n, b)' => Holds(n, b)
    BY <1>1 DEF Holds, Underway
  <2>2. QED
    BY <2>1, SharingKept
<1>9. KeysLead'
  <2>1. ASSUME NEW n \in wire'.keys, Unnoticed(n) PROVE KeyLeads(n)'
    <3>1. KeyLeads(n) /\ n \in Machines /\ n # m
      BY <1>2, <2>1 DEF KeysLead, Typed, WireTyped
    <3>2. QED
      BY <1>1, <1>2, <3>1 DEF KeyLeads, Underway
  <2>2. QED
    BY <2>1 DEF KeysLead, Unnoticed
<1>10. NodesLead'
  BY <1>1, <1>2, <1>3 DEF NodesLead, Undone, Unnoticed
<1>11. QED
  BY <1>4, <1>5, <1>6, <1>7, <1>8, <1>9, <1>10

\* ... or stays there, which is on record.
LEMMA CleanUpSlips ==
    ASSUME EnrollInv, NEW m \in Machines, enrolling[m].step = "wired", EnrollAt(m, "refused"),
           slipped' = slipped \cup {m}, faults' \in 0 .. MaxFaults,
           UNCHANGED <<token, nodeIP, peerIP, wire, undoing, crossed>>
    PROVE  EnrollInv'
<1> USE DEF EnrollInv
<1>1. /\ enrolling' \in [Machines -> Attempt] /\ enrolling'[m].step = "refused"
      /\ \A n \in Machines : enrolling'[n].ip = enrolling[n].ip
      /\ \A n \in Machines \ {m} : enrolling'[n] = enrolling[n]
  BY AttemptMoves DEF Steps
<1>2. Typed'
  BY <1>1 DEF Typed, WireTyped
<1>3. RowsOwn'
  BY <1>1 DEF RowsOwn, OwnRows, Underway
<1>4. UndoingOwn'
  <2>1. \A u \in undoing : u.node # m
    BY DEF UndoingOwn
  <2>2. QED
    BY <1>1, <2>1 DEF UndoingOwn, Typed, Undo
<1>5. WireOwn'
  BY <1>1 DEF WireOwn, Typed, WireTyped
<1>6. SharingIsKnown'
  <2>1. \A n \in Machines : \A b \in Pool : Holds(n, b)' => Holds(n, b)
    BY <1>1 DEF Holds, Underway
  <2>2. QED
    BY <2>1, SharingKept
<1>7. KeysLead'
  <2>1. ASSUME NEW n \in wire.keys, Unnoticed(n)' PROVE KeyLeads(n)'
    <3>1. KeyLeads(n) /\ n \in Machines /\ n # m
      BY <2>1 DEF KeysLead, Typed, WireTyped, Unnoticed
    <3>2. QED
      BY <1>1, <3>1 DEF KeyLeads, Underway
  <2>2. QED
    BY <2>1 DEF KeysLead
<1>8. NodesLead'
  BY <1>1 DEF NodesLead, Undone, Unnoticed
<1>9. QED
  BY <1>2, <1>3, <1>4, <1>5, <1>6, <1>7, <1>8

LEMMA CreateNodeKeeps ==
    ASSUME EnrollInv, NEW m \in Machines, CreateNode(m)
    PROVE  EnrollInv'
<1>1. enrolling[m].step = "wired" /\ UNCHANGED <<token, peerIP, undoing, crossed>>
  BY DEF CreateNode
<1>2. CASE /\ nodeIP' = [nodeIP EXCEPT ![m] = enrolling[m].ip]
           /\ EnrollAt(m, "rowed") /\ UNCHANGED <<wire, slipped, faults>>
  BY <1>1, <1>2, RowWritten
<1>3. CASE /\ UNCHANGED faults \/ Fault
           /\ \/ wire' = CleanedUp(m) /\ UNCHANGED slipped
              \/ slipped' = slipped \cup {m} /\ UNCHANGED wire
           /\ EnrollAt(m, "refused") /\ UNCHANGED nodeIP
  <2>1. faults' \in 0 .. MaxFaults
    BY <1>3, EnrollBounds DEF Fault, EnrollInv, Typed
  <2>2. QED
    BY <1>1, <1>3, <2>1, CleanUpKeeps, CleanUpSlips
<1>4. QED
  BY <1>2, <1>3 DEF CreateNode

LEMMA UseTokenKeeps ==
    ASSUME EnrollInv, NEW m \in Machines, UseToken(m)
    PROVE  EnrollInv'
<1>1. /\ enrolling[m].step = "rowed" /\ EnrollAt(m, "spent")
      /\ UNCHANGED <<nodeIP, peerIP, wire, undoing, crossed, slipped>>
      /\ "spent" \in Steps
  BY DEF UseToken, Steps
<1>2. token' \in [Tokens -> TokenRow]
  BY DEF UseToken, EnrollInv, Typed, TokenRow
<1>3. faults' \in 0 .. MaxFaults
  BY EnrollBounds DEF UseToken, Fault, EnrollInv, Typed
<1>4. QED
  BY <1>1, <1>2, <1>3, AttemptMoves, RequestMoves DEF EnrollInv

\* The end of a request: the peer's row is written, or that it was not is on record.
LEMMA CreatePeerKeeps ==
    ASSUME EnrollInv, NEW m \in Machines, CreatePeer(m)
    PROVE  EnrollInv'
<1> USE DEF EnrollInv
<1>1. /\ enrolling[m].step = "spent" /\ EnrollAt(m, "enrolled")
      /\ UNCHANGED <<token, nodeIP, wire, undoing, crossed>>
  BY DEF CreatePeer
<1>2. /\ enrolling' \in [Machines -> Attempt] /\ enrolling'[m].step = "enrolled"
      /\ \A n \in Machines : enrolling'[n].ip = enrolling[n].ip
      /\ \A n \in Machines \ {m} : enrolling'[n] = enrolling[n]
  BY <1>1, AttemptMoves DEF Steps
<1>3. /\ enrolling[m].ip # 0 /\ enrolling[m].ip \in Pool /\ peerIP[m] = 0
  BY <1>1 DEF RowsOwn, OwnRows, Underway, Typed, Attempt
<1>4. /\ peerIP' \in [Machines -> Pool \cup {0}]
      /\ \A n \in Machines \ {m} : peerIP'[n] = peerIP[n]
      /\ \/ peerIP'[m] = enrolling[m].ip /\ slipped' = slipped
         \/ peerIP'[m] = 0 /\ slipped' = slipped \cup {m}
  <2>1. CASE peerIP' = [peerIP EXCEPT ![m] = enrolling[m].ip] /\ slipped' = slipped
    BY <1>3, <2>1 DEF Typed
  <2>2. CASE slipped' = slipped \cup {m} /\ UNCHANGED peerIP
    BY <1>3, <2>2 DEF Typed
  <2>3. QED
    BY <2>1, <2>2 DEF CreatePeer
<1>5. slipped \subseteq slipped' /\ slipped' \subseteq Machines
  BY <1>4 DEF Typed
<1>6. Typed'
  <2>1. faults' \in 0 .. MaxFaults
    BY EnrollBounds DEF CreatePeer, Fault, Typed
  <2>2. QED
    BY <1>1, <1>2, <1>4, <1>5, <2>1 DEF Typed, WireTyped
<1>7. RowsOwn'
  <2>1. OwnRows(m)'
    BY <1>1, <1>2, <1>3, <1>4 DEF RowsOwn, OwnRows, Underway
  <2>2. \A n \in Machines \ {m} : OwnRows(n)'
    BY <1>1, <1>2, <1>4 DEF RowsOwn, OwnRows, Underway
  <2>3. QED
    BY <2>1, <2>2 DEF RowsOwn
<1>8. UndoingOwn'
  BY <1>1, <1>2 DEF UndoingOwn, Typed, Undo
<1>9. WireOwn'
  BY <1>1, <1>2 DEF WireOwn, Typed, WireTyped
<1>10. SharingIsKnown'
  <2>1. \A n \in Machines : \A b \in Pool : Holds(n, b)' => Holds(n, b)
    BY <1>1, <1>2, <1>4 DEF Holds, Underway
  <2>2. QED
    BY <1>1, <2>1, SharingKept
<1>11. KeysLead'
  <2>1. ASSUME NEW n \in wire.keys, Unnoticed(n)' PROVE KeyLeads(n)'
    <3>1. KeyLeads(n) /\ n \in Machines
      BY <1>1, <1>5, <2>1 DEF KeysLead, Typed, WireTyped, Unnoticed
    <3>2. CASE n # m
      BY <1>1, <1>2, <1>4, <3>1, <3>2 DEF KeyLeads, Underway
    <3>3. CASE n = m
      <4>1. peerIP'[m] # 0
        BY <1>3, <1>4, <2>1, <3>3 DEF Unnoticed
      <4>2. nodeIP[m] # 0
        BY <1>1, <2>1, <3>1, <3>3 DEF KeyLeads
      <4>3. QED
        BY <1>1, <1>2, <3>1, <3>3, <4>1, <4>2 DEF KeyLeads
    <3>4. QED
      BY <3>2, <3>3
  <2>2. QED
    BY <1>1, <2>1 DEF KeysLead
<1>12. NodesLead'
  BY <1>1, <1>2, <1>5 DEF NodesLead, Undone, Unnoticed
<1>13. QED
  BY <1>6, <1>7, <1>8, <1>9, <1>10, <1>11, <1>12

-----------------------------------------------------------------------------
\* A removal or a rollback starts with an address the machine has, or none.
LEMMA UndoStarts ==
    ASSUME EnrollInv, NEW m \in Machines, StartRollback(m) \/ StartRemove(m)
    PROVE  EnrollInv'
<1> USE DEF EnrollInv
<1>1. UNCHANGED <<token, enrolling, nodeIP, peerIP, wire, crossed, slipped, faults>>
  BY DEF StartRollback, StartRemove
<1>2. PICK u \in Undo :
          /\ undoing' = undoing \cup {u} /\ u.node = m
          /\ u.ip \in {0, enrolling[m].ip}
          /\ u.ip # 0 => nodeIP[m] # 0 \/ peerIP[m] # 0
          /\ u.wired => u.ip # 0
          /\ enrolling[m].step \in {"rowed", "spent", "enrolled", "refused"}
          /\ ~u.wired => enrolling[m].step = "enrolled" /\ peerIP[m] = 0
  <2>1. CASE StartRollback(m)
    <3> DEFINE u == [node |-> m, how |-> "rollback", ip |-> peerIP[m], wired |-> peerIP[m] # 0]
    <3>1. undoing' = undoing \cup {u} /\ enrolling[m].step = "enrolled" /\ peerIP[m] \in {0, enrolling[m].ip}
      BY <2>1 DEF StartRollback, RowsOwn, OwnRows
    <3>2. u \in Undo /\ u.node = m /\ u.ip = peerIP[m] /\ u.wired = (peerIP[m] # 0)
      BY DEF Undo, Typed
    <3>3. QED
      BY <3>1, <3>2
  <2>2. CASE StartRemove(m)
    <3> DEFINE u == [node |-> m, how |-> "remove", ip |-> nodeIP[m], wired |-> TRUE]
    <3>1. undoing' = undoing \cup {u} /\ nodeIP[m] # 0
      BY <2>2 DEF StartRemove
    <3>2. u \in Undo /\ u.node = m /\ u.ip = nodeIP[m] /\ u.wired = TRUE
      BY DEF Undo, Typed
    <3>3. /\ nodeIP[m] \in {0, enrolling[m].ip}
          /\ enrolling[m].step \in {"rowed", "spent", "enrolled", "refused"}
      BY <3>1 DEF RowsOwn, OwnRows
    <3>4. QED
      BY <3>1, <3>2, <3>3
  <2>3. QED
    BY <2>1, <2>2
<1>3. Typed'
  BY <1>1, <1>2 DEF Typed, WireTyped
<1>4. RowsOwn'
  BY <1>1 DEF RowsOwn, OwnRows, Underway
<1>5. UndoingOwn'
  BY <1>1, <1>2 DEF UndoingOwn
<1>6. WireOwn'
  BY <1>1 DEF WireOwn
<1>7. SharingIsKnown'
  <2>1. \A n \in Machines : \A b \in Pool : Holds(n, b)' => Holds(n, b)
    BY <1>1, <1>2, PoolIsNatural DEF Holds, Underway
  <2>2. QED
    BY <1>1, <2>1, SharingKept
<1>8. KeysLead'
  BY <1>1, <1>2 DEF KeysLead, KeyLeads, Unnoticed
<1>9. NodesLead'
  <2>1. \A n \in Machines : Undone(n) => Undone(n)'
    BY <1>2 DEF Undone
  <2>2. QED
    BY <1>1, <2>1 DEF NodesLead, Unnoticed
<1>10. QED
  BY <1>3, <1>4, <1>5, <1>6, <1>7, <1>8, <1>9

\* The keys a removal names are its machine's, or that of a machine that is on
\* record for having the same address.
LEMMA KeysOfOne ==
    ASSUME EnrollInv, NEW u \in undoing, u.wired
    PROVE  /\ u.node \in Machines /\ KeysOf(u) \in SUBSET Machines
           /\ \A m \in wire.keys : m \in KeysOf(u) /\ m # u.node /\ Unnoticed(m) => FALSE
           /\ u.node \in wire.keys /\ Unnoticed(u.node) => u.node \in KeysOf(u)
<1>1. u.node \in Machines /\ u.ip \in Pool /\ u.ip = enrolling[u.node].ip
  BY DEF EnrollInv, Typed, Undo, UndoingOwn
<1>2. wire.to[u.ip] \in Machines \cup {NoOwner}
  BY <1>1 DEF EnrollInv, Typed, WireTyped
<1>3. KeysOf(u) \in SUBSET Machines
  BY <1>1, <1>2 DEF KeysOf
<1>4. ASSUME NEW m \in wire.keys, m \in KeysOf(u), m # u.node, Unnoticed(m) PROVE FALSE
  <2>1. KeyLeads(m) /\ m \in Machines /\ m # NoOwner
    BY <1>4, EnrollBounds DEF EnrollInv, KeysLead, Typed, WireTyped
  <2>2. wire.to[u.ip] = m
    BY <1>4 DEF KeysOf
  <2>3. enrolling[m].ip = u.ip
    BY <1>1, <2>1, <2>2 DEF EnrollInv, WireOwn
  <2>4. Holds(m, u.ip) /\ Holds(u.node, u.ip)
    BY <1>1, <2>1, <2>3 DEF Holds, KeyLeads, Underway
  <2>5. m \in crossed
    BY <1>1, <1>4, <2>1, <2>4 DEF EnrollInv, SharingIsKnown
  <2>6. QED
    BY <1>4, <2>5 DEF Unnoticed
<1>5. ASSUME u.node \in wire.keys, Unnoticed(u.node) PROVE u.node \in KeysOf(u)
  BY <1>1, <1>5, EnrollBounds DEF EnrollInv, KeysLead, KeyLeads, KeysOf
<1>6. QED
  BY <1>1, <1>3, <1>4, <1>5

\* RemoveNodePeers: whether it works or not, the machine is no key without a fault.
LEMMA UnwireKeeps ==
    ASSUME EnrollInv, NEW u \in undoing, Unwire(u)
    PROVE  EnrollInv'
<1> USE DEF EnrollInv
<1>1. /\ u.wired /\ undoing' = (undoing \ {u}) \cup {[u EXCEPT !.wired = FALSE]}
      /\ UNCHANGED <<token, enrolling, nodeIP, peerIP, crossed>>
      /\ u \in Undo /\ u.node \in Machines
  BY DEF Unwire, Typed, Undo
<1> DEFINE v == [u EXCEPT !.wired = FALSE]
<1>2. v \in Undo /\ v.node = u.node /\ v.ip = u.ip /\ ~v.wired
  BY <1>1 DEF Undo
<1>3. /\ KeysOf(u) \in SUBSET Machines
      /\ \A m \in wire.keys : m \in KeysOf(u) /\ m # u.node /\ Unnoticed(m) => FALSE
      /\ u.node \in wire.keys /\ Unnoticed(u.node) => u.node \in KeysOf(u)
  BY <1>1, KeysOfOne
<1>4. /\ WireTyped' /\ WireOwn'
      /\ slipped \subseteq slipped' /\ slipped' \subseteq Machines /\ faults' \in 0 .. MaxFaults
      /\ wire'.keys \subseteq wire.keys
      /\ \A m \in wire'.keys : Unnoticed(m)' =>
            m # u.node /\ \A b \in Pool : wire.to[b] = m => wire'.to[b] = m
      /\ \A m \in wire.keys \ wire'.keys : m = u.node \/ ~Unnoticed(m)
  <2>1. CASE wire' = Unwired(KeysOf(u)) /\ UNCHANGED <<slipped, faults>>
    <3>1. /\ WireTyped' /\ wire'.keys = wire.keys \ KeysOf(u)
          /\ \A n \in Machines \ KeysOf(u) : \A b \in Pool : wire.to[b] = n => wire'.to[b] = n
          /\ \A b \in Pool : wire'.to[b] # NoOwner => enrolling'[wire'.to[b]].ip = b
      BY <1>1, <1>3, <2>1, KeysTakenOff DEF Typed
    <3>2. WireOwn'
      BY <1>1, <3>1 DEF WireOwn
    <3>3. \A m \in wire'.keys : m \in Machines
      BY <3>1 DEF Typed, WireTyped
    <3>4. QED
      BY <1>1, <1>3, <2>1, <3>1, <3>2, <3>3 DEF Typed, Unnoticed
  <2>2. CASE Fault /\ slipped' = slipped \cup KeysOf(u) /\ UNCHANGED wire
    <3>1. WireTyped' /\ WireOwn'
      BY <1>1, <2>2 DEF Typed, WireTyped, WireOwn
    <3>2. faults' \in 0 .. MaxFaults
      BY <2>2, EnrollBounds DEF Fault, Typed
    <3>3. \A m \in wire'.keys : Unnoticed(m)' => m # u.node
      BY <1>1, <1>3, <2>2 DEF Unnoticed
    <3>4. QED
      BY <1>3, <2>2, <3>1, <3>2, <3>3 DEF Typed
  <2>3. QED
    BY <2>1, <2>2 DEF Unwire
<1>5. Typed'
  BY <1>1, <1>2, <1>4 DEF Typed
<1>6. RowsOwn'
  BY <1>1 DEF RowsOwn, OwnRows, Underway
<1>7. UndoingOwn'
  BY <1>1, <1>2 DEF UndoingOwn
<1>8. SharingIsKnown'
  <2>1. \A n \in Machines : \A b \in Pool : Holds(n, b)' => Holds(n, b)
    BY <1>1, <1>2 DEF Holds, Underway
  <2>2. QED
    BY <1>1, <2>1, SharingKept
<1>9. KeysLead'
  <2>1. ASSUME NEW m \in wire'.keys, Unnoticed(m)' PROVE KeyLeads(m)'
    <3>1. Unnoticed(m) /\ m \in wire.keys /\ m # u.node
      BY <1>1, <1>4, <2>1 DEF Unnoticed
    <3>2. KeyLeads(m)
      BY <3>1 DEF KeysLead
    <3>3. wire'.to[enrolling[m].ip] = m
      BY <1>4, <2>1, <3>2 DEF KeyLeads
    <3>4. \A w \in undoing' : w.node = m => w.wired
      BY <1>1, <1>2, <3>1, <3>2 DEF KeyLeads
    <3>5. QED
      BY <1>1, <3>2, <3>3, <3>4 DEF KeyLeads
  <2>2. QED
    BY <2>1 DEF KeysLead
<1>10. NodesLead'
  <2>1. \A n \in Machines : Undone(n) => Undone(n)'
    BY <1>1, <1>2 DEF Undone
  <2>2. Undone(u.node)'
    BY <1>1, <1>2 DEF Undone
  <2>3. \A n \in Machines : Unnoticed(n)' => Unnoticed(n)
    BY <1>1, <1>4 DEF Unnoticed
  <2>4. QED
    BY <1>1, <1>4, <2>1, <2>2, <2>3 DEF NodesLead
<1>11. QED
  BY <1>4, <1>5, <1>6, <1>7, <1>8, <1>9, <1>10

\* The rows go when the key is no longer on the interface, but for faults.
LEMMA DeleteRowsKeeps ==
    ASSUME EnrollInv, NEW u \in undoing, DeleteRows(u)
    PROVE  EnrollInv'
<1> USE DEF EnrollInv
<1>1. /\ ~u.wired /\ undoing' = undoing \ {u}
      /\ UNCHANGED <<enrolling, wire, crossed, slipped, faults>>
      /\ u \in Undo /\ u.node \in Machines
  BY DEF DeleteRows, Typed, Undo
<1>2. /\ nodeIP' \in [Machines -> Pool \cup {0}] /\ peerIP' \in [Machines -> Pool \cup {0}]
      /\ nodeIP'[u.node] = 0 /\ peerIP'[u.node] = 0
      /\ \A n \in Machines \ {u.node} : nodeIP'[n] = nodeIP[n] /\ peerIP'[n] = peerIP[n]
  BY <1>1 DEF DeleteRows, Typed
<1>3. token' \in [Tokens -> TokenRow]
  BY DEF DeleteRows, Typed, TokenRow
<1>4. Typed'
  BY <1>1, <1>2, <1>3 DEF Typed, WireTyped
<1>5. RowsOwn'
  <2>1. OwnRows(u.node)'
    BY <1>1, <1>2 DEF RowsOwn, OwnRows, Underway
  <2>2. \A n \in Machines \ {u.node} : OwnRows(n)'
    BY <1>1, <1>2 DEF RowsOwn, OwnRows, Underway
  <2>3. QED
    BY <2>1, <2>2 DEF RowsOwn
<1>6. UndoingOwn'
  BY <1>1 DEF UndoingOwn
<1>7. WireOwn'
  BY <1>1 DEF WireOwn
<1>8. SharingIsKnown'
  <2>1. \A n \in Machines : \A b \in Pool : Holds(n, b)' => Holds(n, b)
    BY <1>1, <1>2 DEF Holds, Underway
  <2>2. QED
    BY <1>1, <2>1, SharingKept
<1>9. KeysLead'
  <2>1. ASSUME NEW m \in wire.keys, Unnoticed(m) PROVE KeyLeads(m)'
    <3>1. KeyLeads(m) /\ m \in Machines
      BY <2>1 DEF KeysLead, Typed, WireTyped
    <3>2. m # u.node
      BY <1>1, <3>1 DEF KeyLeads
    <3>3. QED
      BY <1>1, <1>2, <3>1, <3>2 DEF KeyLeads
  <2>2. QED
    BY <1>1, <2>1 DEF KeysLead, Unnoticed
<1>10. NodesLead'
  <2>1. \A n \in Machines \ {u.node} : Undone(n) => Undone(n)'
    BY <1>1 DEF Undone
  <2>2. enrolling[u.node].step # "wired"
    BY DEF UndoingOwn
  <2>3. QED
    BY <1>1, <1>2, <2>1, <2>2 DEF NodesLead, Unnoticed
<1>11. QED
  BY <1>4, <1>5, <1>6, <1>7, <1>8, <1>9, <1>10

\* A stop of the Hub: what was under way is on record.
LEMMA EnrollHubStopKeeps ==
    ASSUME EnrollInv, EnrollHubStop
    PROVE  EnrollInv'
<1> USE DEF EnrollInv
<1>1. /\ undoing' = {} /\ faults' \in 0 .. MaxFaults
      /\ UNCHANGED <<token, nodeIP, peerIP, wire, crossed>>
      /\ slipped' = slipped \cup {m \in Machines : Underway(m)} \cup {u.node : u \in undoing}
  <2>1. faults' \in 0 .. MaxFaults
    <3>1. faults < MaxFaults /\ faults' = faults + 1 /\ faults \in 0 .. MaxFaults
      BY DEF EnrollHubStop, Fault, Typed
    <3>2. QED
      BY <3>1, EnrollBounds
  <2>2. QED
    BY <2>1 DEF EnrollHubStop
<1>2. /\ enrolling' \in [Machines -> Attempt]
      /\ \A m \in Machines :
            /\ enrolling'[m].ip = enrolling[m].ip
            /\ Underway(m) \/ enrolling[m].step = "let in" => enrolling'[m].step = "refused"
            /\ ~Underway(m) /\ enrolling[m].step # "let in" => enrolling'[m].step = enrolling[m].step
  <2>1. \A m \in Machines : [enrolling[m] EXCEPT !.step = "refused"] \in Attempt
    BY DEF Typed, Attempt, Steps
  <2>2. QED
    BY <2>1 DEF EnrollHubStop, Typed, Attempt
<1>3. /\ slipped \subseteq slipped' /\ slipped' \subseteq Machines
      /\ \A m \in Machines : Underway(m) \/ Undone(m) => m \in slipped'
  BY <1>1 DEF Typed, Undo, Undone
<1>4. Typed'
  BY <1>1, <1>2, <1>3 DEF Typed, WireTyped
<1>5. RowsOwn'
  <2>1. ASSUME NEW m \in Machines PROVE OwnRows(m)'
    <3>1. OwnRows(m)
      BY DEF RowsOwn
    <3>2. CASE Underway(m) \/ enrolling[m].step = "let in"
      BY <1>1, <1>2, <3>1, <3>2 DEF OwnRows, Underway
    <3>3. CASE ~Underway(m) /\ enrolling[m].step # "let in"
      BY <1>1, <1>2, <3>1, <3>3 DEF OwnRows, Underway
    <3>4. QED
      BY <3>2, <3>3
  <2>2. QED
    BY <2>1 DEF RowsOwn
<1>6. UndoingOwn'
  BY <1>1 DEF UndoingOwn
<1>7. WireOwn'
  <2>1. \A m \in wire.keys : enrolling'[m].step \notin {"not yet", "let in", "given"}
    BY <1>2 DEF WireOwn, Typed, WireTyped, Underway
  <2>2. \A a \in Pool : wire.to[a] # NoOwner => enrolling'[wire.to[a]].ip = a
    BY <1>2 DEF WireOwn, Typed, WireTyped
  <2>3. QED
    BY <1>1, <2>1, <2>2 DEF WireOwn
<1>8. SharingIsKnown'
  <2>1. \A n \in Machines : \A b \in Pool : Holds(n, b)' => Holds(n, b)
    BY <1>1, <1>2 DEF Holds, Underway
  <2>2. QED
    BY <1>1, <2>1, SharingKept
<1>9. KeysLead'
  <2>1. ASSUME NEW m \in wire.keys, Unnoticed(m)' PROVE KeyLeads(m)'
    <3>1. Unnoticed(m) /\ m \in Machines /\ ~Underway(m)
      BY <1>1, <1>3, <2>1 DEF Unnoticed, Typed, WireTyped
    <3>2. KeyLeads(m) /\ enrolling[m].step # "let in"
      BY <2>1, <3>1 DEF KeysLead, WireOwn
    <3>3. QED
      BY <1>1, <1>2, <3>1, <3>2 DEF KeyLeads, Underway
  <2>2. QED
    BY <1>1, <2>1 DEF KeysLead
<1>10. NodesLead'
  <2>1. ASSUME NEW m \in Machines, enrolling'[m].step = "wired" \/ nodeIP[m] # 0, Unnoticed(m)'
        PROVE  m \in wire.keys
    <3>1. Unnoticed(m) /\ ~Undone(m) /\ ~Underway(m)
      BY <1>1, <1>3, <2>1 DEF Unnoticed
    <3>2. QED
      BY <1>2, <2>1, <3>1 DEF NodesLead, Underway
  <2>2. QED
    BY <1>1, <2>1 DEF NodesLead
<1>11. QED
  BY <1>4, <1>5, <1>6, <1>7, <1>8, <1>9, <1>10

LEMMA EnrollInvStep == EnrollInv /\ [EnrollNext]_enrollVars => EnrollInv'
<1> SUFFICES ASSUME EnrollInv, [EnrollNext]_enrollVars PROVE EnrollInv'
  OBVIOUS
<1>1. ASSUME NEW m \in Machines, NEW t \in Tokens, LetIn(m, t) PROVE EnrollInv'
  <2>1. /\ enrolling[m].step = "not yet" /\ enrolling[m].ip = 0 /\ enrolling \in [Machines -> Attempt]
        /\ UNCHANGED <<token, nodeIP, peerIP, wire, undoing, crossed, slipped, faults>>
    BY <1>1 DEF LetIn, EnrollInv, Typed, RowsOwn, OwnRows
  <2>2. /\ enrolling' \in [Machines -> Attempt] /\ enrolling'[m].step = "let in" /\ "let in" \in Steps
        /\ \A n \in Machines : enrolling'[n].ip = enrolling[n].ip
        /\ \A n \in Machines \ {m} : enrolling'[n] = enrolling[n]
    BY <1>1, <2>1 DEF LetIn, Attempt, Steps
  <2>3. QED
    BY <2>1, <2>2, RequestMoves DEF EnrollInv, Typed
<1>2. ASSUME NEW m \in Machines,
             \/ AllocateIP(m) \/ AddPeer(m) \/ CreateNode(m) \/ UseToken(m) \/ CreatePeer(m)
             \/ StartRollback(m) \/ StartRemove(m)
      PROVE  EnrollInv'
  BY <1>2, AllocateKeeps, AddPeerKeeps, CreateNodeKeeps, UseTokenKeeps, CreatePeerKeeps, UndoStarts
<1>3. ASSUME NEW u \in undoing, Unwire(u) \/ DeleteRows(u) PROVE EnrollInv'
  BY <1>3, UnwireKeeps, DeleteRowsKeeps
<1>4. CASE EnrollHubStop
  BY <1>4, EnrollHubStopKeeps
<1>5. CASE UNCHANGED enrollVars \/ \E t \in Tokens : RevokeToken(t)
  <2>1. UNCHANGED <<enrolling, nodeIP, peerIP, wire, undoing, crossed, slipped, faults>>
    BY <1>5 DEF enrollVars, RevokeToken
  <2>2. token' \in [Tokens -> TokenRow]
    BY <1>5 DEF enrollVars, RevokeToken, EnrollInv, Typed, TokenRow
  <2>3. Typed'
    BY <2>1, <2>2 DEF EnrollInv, Typed, WireTyped
  <2>4. RowsOwn' /\ UndoingOwn' /\ WireOwn'
    BY <2>1 DEF EnrollInv, RowsOwn, OwnRows, UndoingOwn, WireOwn, Underway
  <2>5. SharingIsKnown'
    BY <2>1 DEF EnrollInv, SharingIsKnown, Holds, Underway
  <2>6. KeysLead' /\ NodesLead'
    BY <2>1 DEF EnrollInv, KeysLead, KeyLeads, NodesLead, Unnoticed, Undone
  <2>7. QED
    BY <2>3, <2>4, <2>5, <2>6 DEF EnrollInv
<1>6. CASE EnrollNext
  BY <1>1, <1>2, <1>3, <1>4, <1>5, <1>6 DEF EnrollNext
<1>7. QED
  BY <1>5, <1>6

LEMMA EnrollInvHolds == EnrollSpec => []EnrollInv
<1>1. EnrollInit => EnrollInv
  BY EnrollInvInit
<1>2. EnrollInv /\ [EnrollNext]_enrollVars => EnrollInv'
  BY EnrollInvStep
<1>3. QED
  BY <1>1, <1>2, PTL DEF EnrollSpec

\* Type correctness: a token is unused, used by one machine or gone, and the
\* interface leads an address only to a key it has.
THEOREM EnrollTypeCorrect == EnrollSpec => []EnrollTypeOK
<1>1. ASSUME Typed PROVE EnrollTypeOK
  <2>1. \A t \in Tokens : token[t] = {} \/ \E b \in SUBSET Machines :
                              token[t] = {[by |-> b]} /\ Cardinality(b) <= 1
    <3>1. Cardinality({}) <= 1 /\ \A m : Cardinality({m}) <= 1
      BY FS_EmptySet, FS_Singleton
    <3>2. ASSUME NEW t \in Tokens
          PROVE  token[t] = {} \/ \E b \in SUBSET Machines : token[t] = {[by |-> b]} /\ Cardinality(b) <= 1
      <4>1. token[t] \in TokenRow
        BY <1>1 DEF Typed
      <4>2. CASE token[t] = {FreshToken}
        <5>1. token[t] = {[by |-> {}]} /\ {} \in SUBSET Machines
          BY <4>2 DEF FreshToken
        <5>2. QED
          BY <3>1, <5>1
      <4>3. CASE \E m \in Machines : token[t] = {[by |-> {m}]}
        <5>1. PICK m \in Machines : token[t] = {[by |-> {m}]}
          BY <4>3
        <5>2. {m} \in SUBSET Machines
          OBVIOUS
        <5>3. QED
          BY <3>1, <5>1, <5>2
      <4>4. QED
        BY <4>1, <4>2, <4>3 DEF TokenRow
    <3>3. QED
      BY <3>2
  <2>2. \A m \in Machines : /\ enrolling[m].step \in Steps
                           /\ enrolling[m].ip \in Pool \cup {0}
                           /\ nodeIP[m] \in Pool \cup {0} /\ peerIP[m] \in Pool \cup {0}
    BY <1>1 DEF Typed, Attempt
  <2>3. wire.keys \subseteq Machines /\ \A a \in Pool : wire.to[a] \in wire.keys \cup {NoOwner}
    BY <1>1 DEF Typed, WireTyped
  <2>4. QED
    BY <1>1, <2>1, <2>2, <2>3 DEF EnrollTypeOK, Typed, Steps
<1>2. EnrollInv => EnrollTypeOK
  BY <1>1 DEF EnrollInv
<1>3. QED
  BY <1>2, EnrollInvHolds, PTL

\* A node's address leads to it: no step of another machine's request, rollback or
\* removal takes a node's key off the interface or its address away, unless the two
\* had the same address in hand (EnrollmentService, NodeService.Remove).
THEOREM NodesRouted == EnrollSpec => []NodesAreRouted
<1>1. ASSUME EnrollInv PROVE NodesAreRouted
  <2>1. ASSUME NEW m \in Machines, nodeIP[m] # 0, m \notin crossed, ~Undone(m), m \notin slipped
        PROVE  wire.to[nodeIP[m]] = m
    <3>1. m \in wire.keys
      BY <1>1, <2>1 DEF EnrollInv, NodesLead, Unnoticed
    <3>2. KeyLeads(m) /\ nodeIP[m] = enrolling[m].ip
      BY <1>1, <2>1, <3>1 DEF EnrollInv, KeysLead, Unnoticed, RowsOwn, OwnRows
    <3>3. QED
      BY <3>2 DEF KeyLeads
  <2>2. QED
    BY <2>1 DEF NodesAreRouted, Undone
<1>2. EnrollInv => NodesAreRouted
  BY <1>1
<1>3. QED
  BY <1>2, EnrollInvHolds, PTL

\* No machine stays on the Hub's network that the Hub does not know: every key on
\* the interface is a node's or about to be, unless a command or a write failed,
\* the Hub stopped, or another request had its address.
THEOREM PeersKnown == EnrollSpec => []PeersAreKnown
<1>1. ASSUME EnrollInv PROVE PeersAreKnown
  <2>1. ASSUME NEW m \in wire.keys \ (slipped \cup crossed)
        PROVE  nodeIP[m] # 0 \/ Underway(m)
    <3>1. KeyLeads(m)
      BY <1>1 DEF EnrollInv, KeysLead, Unnoticed
    <3>2. QED
      BY <3>1 DEF KeyLeads, Underway
  <2>2. QED
    BY <2>1 DEF PeersAreKnown
<1>2. EnrollInv => PeersAreKnown
  BY <1>1
<1>3. QED
  BY <1>2, EnrollInvHolds, PTL

=============================================================================
