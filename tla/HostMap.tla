------------------------------ MODULE HostMap ------------------------------
(***************************************************************************)
(* What the list of managed hosts promises to whoever uses it: a map from  *)
(* names to hosts, of which every operation changes the host it is about   *)
(* and nothing else.  HostStore implements it (app.py), with two ways of   *)
(* losing hosts: an edit that fails may hide its host (Hide), which is     *)
(* gone for good if an operation follows before the list is read again     *)
(* (Recover), and a stop of the process in the middle of a save loses the  *)
(* whole list (Lose).                                                      *)
(***************************************************************************)
CONSTANTS Names,   \* host names
          Confs,   \* what a user enters for a host: address, user, port, ...
          NoHost

VARIABLES hosts, forgotten   \* forgotten: the hidden hosts

Host == [conf : Confs, found : BOOLEAN]   \* found: detection has added to it
Fresh(c) == [conf |-> c, found |-> FALSE]
NoHosts == [n \in Names |-> NoHost]

Init == hosts = NoHosts /\ forgotten = {}

Shown == [n \in Names |-> IF n \in forgotten THEN NoHost ELSE hosts[n]]
Becomes(new) == hosts' = new /\ forgotten' = {}

Put(n, c) == Becomes([Shown EXCEPT ![n] = Fresh(c)])

Edit(old, new, c) ==
    /\ Shown[old] # NoHost
    /\ Becomes([n \in Names |-> CASE n = new -> [Shown[old] EXCEPT !.conf = c]
                                   [] n = old /\ n # new -> NoHost
                                   [] OTHER -> Shown[n]])

Remove(n) == Becomes([Shown EXCEPT ![n] = NoHost])

Find(n) == /\ Shown[n] # NoHost
           /\ Becomes([Shown EXCEPT ![n] = [Shown[n] EXCEPT !.found = TRUE]])

Hide(n) == Shown[n] # NoHost /\ forgotten' = forgotten \cup {n} /\ UNCHANGED hosts

Recover == forgotten' = {} /\ UNCHANGED hosts

Lose == Becomes(NoHosts)

Next == \/ \E n \in Names : Remove(n) \/ Find(n) \/ Hide(n) \/ \E c \in Confs : Put(n, c)
        \/ \E old, new \in Names, c \in Confs : Edit(old, new, c)
        \/ Recover \/ Lose

Spec == Init /\ [][Next]_<<hosts, forgotten>>
=============================================================================
