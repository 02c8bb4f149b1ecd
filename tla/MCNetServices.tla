--------------------------- MODULE MCNetServices ----------------------------
(* Two DHCP servers that are also the only other hosts, one more hardware  *)
(* address than hosts, room for one ARP neighbour and one UDP socket more. *)
EXTENDS NetWorld, TLC

CONSTANTS s1, s2, a1, a2, m1, m2, m3

MCLease == s1 :> a1 @@ s2 :> a2
MCFirstMac == s1 :> m1 @@ s2 :> m2

B(servers, speakers, naks, dups, losses, frames, datagrams, moves, calls, reads, sets) ==
    [servers |-> servers, speakers |-> speakers,
     left |-> [naks |-> naks, dups |-> dups, losses |-> losses, frames |-> frames,
               datagrams |-> datagrams, moves |-> moves,
               calls |-> calls, reads |-> reads, sets |-> sets]]

\* Two servers with a refusal and a duplicate; with a loss and a frame nobody
\* asked for; an address set by a module; datagrams, read and sent; neighbours
\* that speak and move.
MCBudgets == {B({s1, s2}, {}, 1, 1, 0, 0, 0, 0, 0, 0, 0),
              B({s1, s2}, {s1}, 0, 0, 1, 1, 0, 0, 0, 0, 0),
              B({s1}, {s2}, 0, 0, 0, 1, 0, 0, 0, 0, 1),
              B({}, {s1}, 0, 1, 0, 0, 2, 0, 1, 2, 0),
              B({}, {s1}, 0, 0, 0, 0, 1, 0, 3, 1, 0),
              B({}, {s1, s2}, 0, 0, 0, 2, 0, 1, 0, 0, 0)}
=============================================================================
