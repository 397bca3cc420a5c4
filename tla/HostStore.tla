----------------------------- MODULE HostStore -----------------------------
(***************************************************************************)
(* The host list of FleetPilot (app.py): hosts.json, the in-memory cache   *)
(* in front of it, and the handlers and probe threads that change it.      *)
(*                                                                         *)
(* load_hosts() hands out the cached dictionary itself, so that threads    *)
(* that hit the cache share one object; one that misses reads the file     *)
(* into an object of its own and caches it.  A handler changes the object  *)
(* it was given and save_hosts() writes all of it: the file is truncated,  *)
(* then written, then the cache is dropped.  Objects are numbered here;    *)
(* heap gives their content.                                               *)
(***************************************************************************)
EXTENDS Naturals, FiniteSets

CONSTANTS Names, Confs, NoHost,
          Workers,   \* threads: of requests, and of capability probes
          MaxObjs,   \* bound: dictionary objects in use at a time
          TornFile   \* a truncated or half-written hosts.json

ASSUME StoreConstants == MaxObjs \in Nat \ {0} /\ Names # {} /\ Confs # {}

VARIABLES file,      \* hosts.json
          heap,      \* dictionary objects
          cache,     \* the cached object, 0 for none
          job,       \* what each thread is doing
          inflight,  \* _host_discovery_inflight
          started,   \* the hosts whose probe thread was started and has not run yet
          answered,  \* history: names whose add was answered, not asked away since
          forgotten  \* history: hosts that the cached object lost in an edit that failed

probes == <<inflight, started>>
notes == <<answered, forgotten>>
hostVars == <<file, heap, cache, job, probes, notes>>

Host == [conf : Confs, found : BOOLEAN]
Fresh(c) == [conf |-> c, found |-> FALSE]
NoHosts == [n \in Names |-> NoHost]
Hosts == [Names -> Host \cup {NoHost}]
ASSUME TornIsNoList == TornFile \notin Hosts

Objs == 1 .. MaxObjs
Ops == {"add", "register", "edit", "delete", "purge", "image", "detect", "probe"}

Resting == [pc |-> "rest", op |-> "add", name |-> CHOOSE n \in Names : TRUE,
            new |-> CHOOSE n \in Names : TRUE, conf |-> CHOOSE c \in Confs : TRUE,
            obj |-> 0, held |-> NoHost, again |-> FALSE, moved |-> FALSE]

HostInit ==
    /\ file = NoHosts
    /\ heap = [o \in Objs |-> NoHosts] /\ cache = 0
    /\ job = [w \in Workers |-> Resting]
    /\ inflight = {} /\ started = {} /\ answered = {} /\ forgotten = {}

At(w, pc) == job[w].pc = pc
Probes(w, n) == job[w].op = "probe" /\ job[w].name = n /\ ~At(w, "rest")
Dict(w) == heap[job[w].obj]
Goes(w, pc) == job' = [job EXCEPT ![w].pc = pc]

\* A dictionary that nothing refers to any more is freed.
Frees == heap' = [o \in Objs |-> IF o = cache' \/ \E w \in Workers : job'[w].obj = o THEN heap[o] ELSE NoHosts]

-----------------------------------------------------------------------------
(* A thread begins: the forms (manage_hosts, quick_add_host: "add"; the         *)
(* registry's POST: "register"; edit_host), the buttons (delete_host; the       *)
(* registry's DELETE: "purge"; upload_host_image; detect_mac, detect_os:        *)
(* "detect"), or a probe that was scheduled.                                    *)
Begins(w, op, n, new, c) ==
    /\ At(w, "rest")
    /\ job' = [job EXCEPT ![w] = [Resting EXCEPT !.pc = "load", !.op = op, !.name = n, !.new = new, !.conf = c]]
    /\ UNCHANGED <<file, heap, cache>>

UserBegins(w, op, n, new, c) ==
    /\ op # "probe" /\ (op = "edit" \/ new = n) /\ (op \in {"add", "register", "edit"} \/ c = Resting.conf)
    /\ Begins(w, op, n, new, c)
    /\ answered' = CASE op = "edit" -> answered \ {n, new}
                     [] op \in {"delete", "purge"} -> answered \ {n}
                     [] OTHER -> answered
    /\ UNCHANGED <<probes, forgotten>>

ProbeBegins(w, n) ==
    /\ n \in started /\ started' = started \ {n}
    /\ Begins(w, "probe", n, n, Resting.conf)
    /\ UNCHANGED <<inflight, notes>>

\* Mutant: the name of an unsuccessful probe stays in flight.
ProbeKeeps(w) == UNCHANGED inflight

(* The end of a handler, or of a probe: "finally: discard". *)
ProbeEnds(w) == inflight' = IF job[w].op = "probe" THEN inflight \ {job[w].name} ELSE inflight
Ends(w) == /\ job' = [job EXCEPT ![w] = Resting]
           /\ ProbeEnds(w) /\ UNCHANGED started

(* load_hosts(): the cached object, or a new one with the file's content.  An   *)
(* unreadable file is an empty list.                                            *)
AfterLoad(w) == IF job[w].op = "detect" \/ (job[w].op = "probe" /\ ~job[w].again) THEN "look" ELSE "change"

LoadHits(w) ==
    /\ At(w, "load") /\ cache # 0
    /\ job' = [job EXCEPT ![w].obj = cache, ![w].pc = AfterLoad(w)]
    /\ UNCHANGED <<file, heap, cache, probes, notes>>

Unused(o) == o # cache /\ \A v \in Workers : job[v].obj # o

LoadReads(w, o) ==
    /\ At(w, "load") /\ cache = 0 /\ Unused(o)
    /\ heap' = [heap EXCEPT ![o] = IF file = TornFile THEN NoHosts ELSE file]
    /\ job' = [job EXCEPT ![w].obj = o, ![w].pc = "cache"]
    /\ forgotten' = {}
    /\ UNCHANGED <<file, cache, probes, answered>>

LoadCaches(w) ==
    /\ At(w, "cache")
    /\ cache' = job[w].obj
    /\ Goes(w, AfterLoad(w))
    /\ UNCHANGED <<file, heap, probes, notes>>

(* The cached object expires after 15 seconds. *)
Expires == cache # 0 /\ cache' = 0 /\ UNCHANGED <<file, job, probes, notes>> /\ Frees

(* detect and probe look the host up, and then go to the network.               *)
Looks(w) ==
    /\ At(w, "look") /\ Dict(w)[job[w].name] # NoHost
    /\ job' = [job EXCEPT ![w].held = Dict(w)[job[w].name], ![w].pc = "ask"]
    /\ UNCHANGED <<file, heap, cache, probes, notes>>

Answers(w) ==
    /\ At(w, "ask")
    /\ job' = IF job[w].op = "probe"
              THEN [job EXCEPT ![w].again = TRUE, ![w].obj = 0, ![w].held = NoHost, ![w].pc = "load"]
              ELSE [job EXCEPT ![w].pc = "change"]
    /\ UNCHANGED <<file, cache, probes, notes>> /\ Frees

\* Mutant: an added host is in the dictionary before its address is checked.
AddedFirst(w) ==
    /\ At(w, "change") /\ job[w].op = "register"
    /\ heap' = [heap EXCEPT ![job[w].obj][job[w].name] = Fresh(job[w].conf)]
    /\ Ends(w) /\ UNCHANGED <<file, cache, notes>>

(* The early returns: a role, name or address that is refused, a host that did  *)
(* not answer.                                                                  *)
Refused(w) ==
    /\ At(w, "change") /\ job[w].op # "probe"
    /\ Ends(w) /\ UNCHANGED <<file, cache, notes>> /\ Frees

(* The host is not in the dictionary (any more). *)
Missing(w) ==
    /\ \/ At(w, "look")
       \/ At(w, "change") /\ job[w].op \in {"edit", "delete", "image", "probe"}
    /\ Dict(w)[job[w].name] = NoHost
    /\ Ends(w) /\ UNCHANGED <<file, cache, notes>> /\ Frees

\* Mutant: the edited host starts from the form alone.
EditedAfresh(h, c) == Fresh(c)

\* "Start from the stored host": what the form does not show stays.
Edited(h, c) == [h EXCEPT !.conf = c]

Changed(d, j) ==
    CASE j.op \in {"add", "register"} -> [d EXCEPT ![j.name] = Fresh(j.conf)]
      [] j.op = "edit"   -> [[d EXCEPT ![j.name] = NoHost] EXCEPT ![j.new] = Edited(d[j.name], j.conf)]
      [] j.op = "detect" -> [d EXCEPT ![j.name] = [j.held EXCEPT !.found = TRUE]]
      [] j.op \in {"image", "probe"} -> [d EXCEPT ![j.name] = [d[j.name] EXCEPT !.found = TRUE]]
      [] OTHER           -> [d EXCEPT ![j.name] = NoHost]

Keys(d) == {n \in Names : d[n] # NoHost}

(* A dictionary changes in place, under the eyes of a thread that is writing it *)
(* out.                                                                         *)
Noticed(v, w, new) ==
    IF At(v, "dump") /\ job[v].obj = job[w].obj /\ Keys(new) # Keys(Dict(w))
    THEN [job[v] EXCEPT !.moved = TRUE] ELSE job[v]

Changes(w) ==
    /\ At(w, "change")
    /\ job[w].op \in {"edit", "delete", "image", "probe"} => Dict(w)[job[w].name] # NoHost
    /\ LET new == Changed(Dict(w), job[w]) IN
       /\ heap' = [heap EXCEPT ![job[w].obj] = new]
       /\ job' = [v \in Workers |-> IF v = w THEN [job[w] EXCEPT !.pc = "open"] ELSE Noticed(v, w, new)]
    /\ UNCHANGED <<file, cache, probes, notes>>

(* edit_host() with a new name: the old one is popped from the dictionary, then *)
(* int() refuses the port.  The file still has the host; the dictionary, if it  *)
(* is the cached one, goes on without it.                                       *)
RefusedRename(w) ==
    LET n == job[w].name
        less == [Dict(w) EXCEPT ![n] = NoHost] IN
    /\ At(w, "change") /\ job[w].op = "edit" /\ job[w].new # n /\ Dict(w)[n] # NoHost
    /\ job' = [v \in Workers |-> IF v = w THEN Resting ELSE Noticed(v, w, less)]
    /\ heap' = [o \in Objs |-> CASE o # cache /\ \A v \in Workers \ {w} : job[v].obj # o -> NoHosts
                                  [] o = job[w].obj -> less
                                  [] OTHER -> heap[o]]
    /\ forgotten' = IF cache = job[w].obj THEN forgotten \cup {n} ELSE forgotten
    /\ UNCHANGED <<file, cache, probes, answered>>

(* save_hosts(): open(..., "w") truncates the file ...                          *)
Opens(w) ==
    /\ At(w, "open")
    /\ file' = TornFile
    /\ Goes(w, "dump")
    /\ forgotten' = {}
    /\ UNCHANGED <<heap, cache, probes, answered>>

(* ... which gets the dictionary's content.  If another thread has written to   *)
(* the file since, the longer content of the two keeps its end.                 *)
Dumps(w) ==
    /\ At(w, "dump")
    /\ file' \in IF file = TornFile THEN {Dict(w)} ELSE {Dict(w), TornFile}
    /\ Goes(w, "drop")
    /\ UNCHANGED <<heap, cache, probes, notes>>

(* json.dump() fails on a dictionary that another thread has added to or taken  *)
(* from meanwhile: the file keeps what was written, the cache stays.            *)
DumpRaises(w) ==
    /\ At(w, "dump") /\ job[w].moved
    /\ file' \in {TornFile, file}
    /\ Ends(w) /\ UNCHANGED <<cache, notes>> /\ Frees

\* Mutant: a probe is started whether or not one is in flight.
DiscoversAlways(w) == {n \in {job[w].new} : job[w].op \in {"add", "edit"} /\ Dict(w)[n] # NoHost}

(* The hosts whose probe a form schedules, unless one is in flight.             *)
Discovers(w) == {n \in {job[w].new} : job[w].op \in {"add", "edit"} /\ Dict(w)[n] # NoHost /\ n \notin inflight}

\* Mutant: the probe is started without a note of it.
ClaimedNone(w) == inflight

Claimed(w) == inflight \cup Discovers(w)

(* The rest of save_hosts(): cache_invalidate(), the probes; then the answer.   *)
Drops(w) ==
    /\ At(w, "drop")
    /\ cache' = 0
    /\ job' = [job EXCEPT ![w] = Resting]
    /\ inflight' = IF job[w].op = "probe" THEN inflight \ {job[w].name} ELSE Claimed(w)
    /\ started' = started \cup Discovers(w)
    /\ answered' = IF job[w].op \in {"add", "register"} /\ \A v \in Workers \ {w} : job[v].op \in {"detect", "probe"} \/ At(v, "rest")
                   THEN answered \cup {job[w].name} ELSE answered
    /\ UNCHANGED <<file, forgotten>> /\ Frees

(* The process stops and starts: the cache and every thread are gone. *)
Restart ==
    /\ heap' = [o \in Objs |-> NoHosts] /\ cache' = 0
    /\ job' = [w \in Workers |-> Resting]
    /\ inflight' = {} /\ started' = {}
    /\ answered' = IF \E w \in Workers : At(w, "dump") THEN {} ELSE answered
    /\ forgotten' = {}
    /\ UNCHANGED file

Works(w) == \/ LoadHits(w) \/ LoadCaches(w) \/ Looks(w) \/ Answers(w) \/ Refused(w) \/ Missing(w)
            \/ Changes(w) \/ RefusedRename(w) \/ Opens(w) \/ Dumps(w) \/ DumpRaises(w) \/ Drops(w)
            \/ \E o \in Objs : LoadReads(w, o)
HostNext ==
    \/ \E w \in Workers : \/ Works(w)
                          \/ \E n \in Names : ProbeBegins(w, n)
                          \/ \E op \in Ops, n, new \in Names, c \in Confs : UserBegins(w, op, n, new, c)
    \/ Expires \/ Restart

HostSpec == HostInit /\ [][HostNext]_hostVars

(* A thread that has begun goes on (the network answers or times out), and a    *)
(* probe that was scheduled has a thread of its own, which runs in the end.     *)
HostFairness == \A w \in Workers : WF_hostVars(Works(w)) /\ \A n \in Names : SF_hostVars(ProbeBegins(w, n))
HostFairSpec == HostSpec /\ HostFairness

-----------------------------------------------------------------------------
Job == [pc : {"rest", "load", "cache", "look", "ask", "change", "open", "dump", "drop"}, op : Ops,
        name : Names, new : Names, conf : Confs, obj : 0 .. MaxObjs,
        held : Host \cup {NoHost}, again : BOOLEAN, moved : BOOLEAN]

(* The type of the state; a thread past its load has a dictionary, and a probe  *)
(* that is started or at work is in flight.                                     *)
HostTypeOK ==
    /\ file \in Hosts \cup {TornFile} /\ heap \in [Objs -> Hosts] /\ cache \in 0 .. MaxObjs
    /\ job \in [Workers -> Job]
    /\ \A w \in Workers : job[w].obj = 0 => job[w].pc \in {"rest", "load"}
    /\ \A w \in Workers : Probes(w, job[w].name) => job[w].name \in inflight
    /\ started \subseteq inflight /\ inflight \subseteq Names
    /\ answered \subseteq Names /\ forgotten \subseteq Names

(* "Avoid duplicate probes" (schedule_host_discovery): whatever the threads do  *)
(* and whichever of them fail, at most one probe per host is started or at work.*)
OneProbePerHost ==
    \A w \in Workers, n \in Names : Probes(w, n) =>
        n \notin started /\ \A v \in Workers \ {w} : ~Probes(v, n)

(* What the store holds: the file or, while a save is in progress, what it is   *)
(* about to hold.                                                               *)
Saved == IF \E w \in Workers : At(w, "dump")
         THEN Dict(CHOOSE w \in Workers : At(w, "dump"))
         ELSE IF file = TornFile THEN NoHosts ELSE file

(* As long as threads do not overlap, the store is the abstract map: every      *)
(* operation changes its own host, with the cache at any age.  What else can be *)
(* lost is a host whose edit was refused, which the next save leaves out unless *)
(* the file is read before, and all of them by a stop in the middle of a save.  *)
Map == INSTANCE HostMap WITH hosts <- Saved
ImplementsMap == Map!Spec

(* Between requests the cache, of any age, agrees with the file, but for the    *)
(* hosts that an edit with a refused port has taken out of it: no other handler *)
(* leaves a change of the shared dictionary behind that it did not save.        *)
CacheMatchesFile ==
    cache # 0 /\ (\A w \in Workers : At(w, "rest")) =>
        heap[cache] = Map!Shown

(* Every scheduled probe ends, or the host could never be probed again.         *)
ProbesEnd == \A n \in Names : n \in inflight ~> n \notin inflight

(* 'Host "{name}" added successfully' (app.py): a host whose add was answered   *)
(* is in hosts.json from then on, unless somebody asked for it to be deleted or *)
(* renamed, whenever nobody is at work on the file.                             *)
AddedStays ==
    (\A w \in Workers : job[w].pc \notin {"dump", "drop"})
        => \A n \in answered : file # TornFile /\ file[n] # NoHost
=============================================================================
