----------------------------- MODULE Enrollment -----------------------------
(***************************************************************************)
(* How a machine becomes a node: EnrollmentService.Enroll hands it an      *)
(* address and a WireGuard peer, writes its row and uses up the token;     *)
(* Rollback (the installer, within the hour) and NodeService.Remove (a     *)
(* person) take all of it back.  Nothing locks these against each other,   *)
(* and the WireGuard interface is not part of any transaction.             *)
(*                                                                         *)
(* An attempt to enroll makes a new key and would make one new node, so    *)
(* the attempt names both.  The SSH key pair is left out: it is written    *)
(* and deleted beside the peer's row and nothing here reads it.            *)
(***************************************************************************)
EXTENDS Integers, FiniteSets

CONSTANTS
    Machines,   \* attempts to enroll
    Tokens,     \* enrollment tokens a person made
    PoolSize,   \* how many addresses AllocateIP can give
    MaxUndoing, \* bound: rollbacks and removals under way at once
    MaxFaults   \* bound: failed commands, failed writes and Hub stops

NoOwner == "no owner"

ASSUME EnrollmentAssumption ==
    PoolSize \in Nat \ {0} /\ {MaxUndoing, MaxFaults} \subseteq Nat /\ NoOwner \notin Machines

VARIABLES
    token,      \* the token's row: "fresh", "used by" a machine, or gone
    enrolling,  \* of each machine, how far its request has come, and with what
    nodeIP,     \* the nodes table: the machine's address, 0 for no row
    peerIP,     \* the wire_guard_peers table, 0 for no row
    wire,       \* the interface: the keys it has, and the key each address leads to
    undoing,    \* the removals and rollbacks under way
    crossed,    \* history: machines whose address another request also had in hand
    slipped,    \* history: keys whose clean-up failed, was cut off or could not know them
    faults

enrollVars == <<token, enrolling, nodeIP, peerIP, wire, undoing, crossed, slipped, faults>>

Pool == 1 .. PoolSize
FreshToken == [by |-> {}]

\* Every variable has its type; the interface leads only to keys it has.
EnrollTypeOK ==
    /\ \A t \in Tokens : token[t] = {} \/ \E b \in SUBSET Machines :
                              token[t] = {[by |-> b]} /\ Cardinality(b) <= 1
    /\ \A m \in Machines : /\ enrolling[m].step \in {"not yet", "let in", "given", "wired", "rowed",
                                                     "spent", "enrolled", "refused"}
                           /\ enrolling[m].ip \in Pool \cup {0}
                           /\ nodeIP[m] \in Pool \cup {0} /\ peerIP[m] \in Pool \cup {0}
    /\ wire.keys \subseteq Machines
    /\ \A a \in Pool : wire.to[a] \in wire.keys \cup {NoOwner}
    /\ crossed \subseteq Machines /\ slipped \subseteq Machines /\ faults \in 0 .. MaxFaults

-----------------------------------------------------------------------------
(* Enroll, a step for each command and each write.                           *)

Underway(m) == enrolling[m].step \in {"given", "wired", "rowed", "spent"}

\* Mutant: the nodes' own addresses are not looked at.
PeerAddresses == {peerIP[m] : m \in Machines}

\* The addresses AllocateIP skips: those of the peers and of the nodes.
TakenAddresses == {peerIP[m] : m \in Machines} \cup {nodeIP[m] : m \in Machines}

\* wg set ... allowed-ips moves the address to the key named last.
Wired(m, a) == [keys |-> wire.keys \cup {m}, to |-> [wire.to EXCEPT ![a] = m]]

\* wg set ... remove takes the keys out, with the addresses that led to them.
Unwired(ms) == [keys |-> wire.keys \ ms,
                to |-> [a \in Pool |-> IF wire.to[a] \in ms THEN NoOwner ELSE wire.to[a]]]

\* Mutant: an Enroll that did not get to the end leaves its peer.
LeftWired(m) == wire

\* The deferred clean-up of an Enroll that did not get to the end.
CleanedUp(m) == Unwired({m})

Fault == faults < MaxFaults /\ faults' = faults + 1

EnrollAt(m, s) == enrolling' = [enrolling EXCEPT ![m].step = s]

\* The request names a token that is there, unused and not expired.
LetIn(m, t) ==
    /\ enrolling[m].step = "not yet" /\ token[t] = {FreshToken}
    /\ enrolling' = [enrolling EXCEPT ![m] = [step |-> "let in", token |-> t, ip |-> 0]]
    /\ UNCHANGED <<token, nodeIP, peerIP, wire, undoing, crossed, slipped, faults>>

\* Who else has the address in hand: requests under way and removals.
Sharing(a) == {n \in Machines : \/ Underway(n) /\ enrolling[n].ip = a
                                \/ \E u \in undoing : u.node = n /\ u.ip = a}

\* AllocateIP: the first address that no row has, or none is left.
AllocateIP(m) ==
    /\ enrolling[m].step = "let in"
    /\ \/ /\ Pool \subseteq TakenAddresses
          /\ EnrollAt(m, "refused") /\ UNCHANGED crossed
       \/ \E a \in Pool \ TakenAddresses :
             /\ \A b \in Pool \ TakenAddresses : a <= b
             /\ enrolling' = [enrolling EXCEPT ![m].step = "given", ![m].ip = a]
             /\ crossed' = IF Sharing(a) = {} THEN crossed ELSE crossed \cup Sharing(a) \cup {m}
    /\ UNCHANGED <<token, nodeIP, peerIP, wire, undoing, slipped, faults>>

AddPeer(m) ==
    /\ enrolling[m].step = "given"
    /\ \/ wire' = Wired(m, enrolling[m].ip) /\ EnrollAt(m, "wired") /\ UNCHANGED faults
       \/ Fault /\ EnrollAt(m, "refused") /\ UNCHANGED wire
    /\ UNCHANGED <<token, nodeIP, peerIP, undoing, crossed, slipped>>

\* The node's row is written, unless it cannot be or its address is another node's:
\* then the peer is taken out again, which may fail too.
CreateNode(m) ==
    /\ enrolling[m].step = "wired"
    /\ \/ /\ \A n \in Machines : nodeIP[n] # enrolling[m].ip
          /\ nodeIP' = [nodeIP EXCEPT ![m] = enrolling[m].ip]
          /\ EnrollAt(m, "rowed") /\ UNCHANGED <<wire, slipped, faults>>
       \/ /\ \/ (\E n \in Machines : nodeIP[n] = enrolling[m].ip) /\ UNCHANGED faults
             \/ Fault
          /\ \/ wire' = CleanedUp(m) /\ UNCHANGED slipped
             \/ faults' > faults /\ slipped' = slipped \cup {m} /\ UNCHANGED wire
          /\ EnrollAt(m, "refused") /\ UNCHANGED nodeIP
    /\ UNCHANGED <<token, peerIP, undoing, crossed>>

\* The token is saved as it was read, now used: one that was revoked or used
\* meanwhile is written all the same.
UseToken(m) ==
    /\ enrolling[m].step = "rowed" /\ EnrollAt(m, "spent")
    /\ \/ token' = [token EXCEPT ![enrolling[m].token] = {[by |-> {m}]}] /\ UNCHANGED faults
       \/ Fault /\ UNCHANGED token
    /\ UNCHANGED <<nodeIP, peerIP, wire, undoing, crossed, slipped>>

\* The peer's row; that it could not be written is not noticed, and the node is enrolled.
CreatePeer(m) ==
    /\ enrolling[m].step = "spent" /\ EnrollAt(m, "enrolled")
    /\ \/ /\ \A n \in Machines : peerIP[n] # enrolling[m].ip
          /\ peerIP' = [peerIP EXCEPT ![m] = enrolling[m].ip] /\ UNCHANGED <<slipped, faults>>
       \/ /\ \/ (\E n \in Machines : peerIP[n] = enrolling[m].ip) /\ UNCHANGED faults
             \/ Fault
          /\ slipped' = slipped \cup {m} /\ UNCHANGED peerIP
    /\ UNCHANGED <<token, nodeIP, wire, undoing, crossed>>

-----------------------------------------------------------------------------
(* Taking a node back.  Rollback and Remove both read the rows, take the     *)
(* peers out of the interface and then delete the rows.                      *)

\* Rollback: the token the node enrolled with, within the hour.  Without a row
\* for its peer the interface is left alone.
StartRollback(m) ==
    /\ enrolling[m].step = "enrolled"
    /\ token[enrolling[m].token] = {[by |-> {m}]} /\ Cardinality(undoing) < MaxUndoing
    /\ undoing' = undoing \cup {[node |-> m, how |-> "rollback", ip |-> peerIP[m],
                                 wired |-> peerIP[m] # 0]}
    /\ UNCHANGED <<token, enrolling, nodeIP, peerIP, wire, crossed, slipped, faults>>

\* Remove: a node that has no apps.
StartRemove(m) ==
    /\ nodeIP[m] # 0 /\ Cardinality(undoing) < MaxUndoing
    /\ undoing' = undoing \cup {[node |-> m, how |-> "remove", ip |-> nodeIP[m], wired |-> TRUE]}
    /\ UNCHANGED <<token, enrolling, nodeIP, peerIP, wire, crossed, slipped, faults>>

\* The keys RemoveNodePeers takes out: the recorded one, and any the address leads to.
KeysOf(u) == (IF peerIP[u.node] # 0 THEN {u.node} ELSE {}) \cup ({wire.to[u.ip]} \ {NoOwner})

\* RemoveNodePeers; that it failed is logged and the rows are deleted all the same.
Unwire(u) ==
    /\ u \in undoing /\ u.wired
    /\ undoing' = (undoing \ {u}) \cup {[u EXCEPT !.wired = FALSE]}
    /\ \/ wire' = Unwired(KeysOf(u)) /\ UNCHANGED <<slipped, faults>>
       \/ Fault /\ slipped' = slipped \cup KeysOf(u) /\ UNCHANGED wire
    /\ UNCHANGED <<token, enrolling, nodeIP, peerIP, crossed>>

\* The rows go: the peer's, the node's for good (its address is free again) and, when a
\* person removes it, the token it used.
DeleteRows(u) ==
    /\ u \in undoing /\ ~u.wired
    /\ undoing' = undoing \ {u}
    /\ nodeIP' = [nodeIP EXCEPT ![u.node] = 0] /\ peerIP' = [peerIP EXCEPT ![u.node] = 0]
    /\ token' = IF u.how = "rollback" THEN token
                ELSE [t \in Tokens |-> IF token[t] = {[by |-> {u.node}]} THEN {} ELSE token[t]]
    /\ UNCHANGED <<enrolling, wire, crossed, slipped, faults>>

RevokeToken(t) ==
    /\ token[t] # {} /\ token' = [token EXCEPT ![t] = {}]
    /\ UNCHANGED <<enrolling, nodeIP, peerIP, wire, undoing, crossed, slipped, faults>>

\* The Hub stops: the requests under way are cut off where they are.
EnrollHubStop ==
    /\ Fault
    /\ enrolling' = [m \in Machines |-> IF Underway(m) \/ enrolling[m].step = "let in"
                                          THEN [enrolling[m] EXCEPT !.step = "refused"]
                                          ELSE enrolling[m]]
    /\ slipped' = slipped \cup {m \in Machines : Underway(m)} \cup {u.node : u \in undoing}
    /\ undoing' = {}
    /\ UNCHANGED <<token, nodeIP, peerIP, wire, crossed>>

EnrollInit ==
    /\ token = [t \in Tokens |-> {FreshToken}]
    /\ enrolling = [m \in Machines |-> [step |-> "not yet", token |-> CHOOSE t \in Tokens : TRUE, ip |-> 0]]
    /\ nodeIP = [m \in Machines |-> 0] /\ peerIP = [m \in Machines |-> 0]
    /\ wire = [keys |-> {}, to |-> [a \in Pool |-> NoOwner]]
    /\ undoing = {} /\ crossed = {} /\ slipped = {} /\ faults = 0

EnrollNext ==
    \/ \E m \in Machines :
          \/ \E t \in Tokens : LetIn(m, t)
          \/ AllocateIP(m) \/ AddPeer(m) \/ CreateNode(m) \/ UseToken(m) \/ CreatePeer(m)
          \/ StartRollback(m) \/ StartRemove(m)
    \/ \E u \in undoing : Unwire(u) \/ DeleteRows(u)
    \/ \E t \in Tokens : RevokeToken(t)
    \/ EnrollHubStop

-----------------------------------------------------------------------------

\* A node's address leads to that node: whatever others enroll, fail, are rolled back or
\* removed meanwhile, as long as no other request had the same address in hand.
NodesAreRouted ==
    \A m \in Machines :
        nodeIP[m] # 0 /\ m \notin crossed /\ ~(\E u \in undoing : u.node = m)
            => wire.to[nodeIP[m]] = m \/ m \in slipped

\* Every key on the interface is a node's, or that of a request or a removal under way:
\* no machine stays on the Hub's network that the Hub does not know, unless a command or
\* a write failed or the Hub stopped at that point, or another request had its address.
PeersAreKnown ==
    \A m \in wire.keys \ (slipped \cup crossed) :
        nodeIP[m] # 0 \/ Underway(m) \/ (\E u \in undoing : u.node = m)

EnrollSpec == EnrollInit /\ [][EnrollNext]_enrollVars
=============================================================================
