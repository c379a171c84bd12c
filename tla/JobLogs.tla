------------------------------ MODULE JobLogs ------------------------------
(***************************************************************************)
(* The live output of one running job: what the Hub keeps of it in memory  *)
(* and fans out (JobLogHub), the agent's side (AppendLogs), the browsers   *)
(* and command lines that watch (Stream, followJob), and the ways the job  *)
(* ends (Complete, the sweeps of job_service.go).                          *)
(*                                                                         *)
(* Output is counted in lines, each known by its position.  The agent is   *)
(* not in this repository: it sends what it has from an offset, goes on    *)
(* from where the Hub says it is, and repeats a request whose answer was   *)
(* lost.                                                                   *)
(***************************************************************************)
EXTENDS Integers, FiniteSets, Sequences

CONSTANTS
    Watchers,
    MaxLive,    \* maxLiveLog, in lines
    Room,       \* how many events a watcher's channel holds
    MaxOutput   \* bound: lines the job prints

ASSUME JobLogAssumption == {MaxLive, Room, MaxOutput} \subseteq Nat \ {0}

VARIABLES
    logStatus,  \* the job's row: "running", "reported" or "swept"
    live,       \* the Hub's liveLog: none, or what it holds
    agent,      \* lines printed, the next offset, and the request under way
    watcher,    \* of each watcher, what it does, what it was shown and what waits for it
    restarted   \* history: the Hub was restarted while the job ran

logVars == <<logStatus, live, agent, watcher, restarted>>

NoLog == [buf |-> <<>>, total |-> 0, over |-> FALSE, subs |-> {}]

\* get: the job's log, made if there is none.
Of(l) == IF l = {} THEN NoLog ELSE CHOOSE x \in l : TRUE

Away == [doing |-> "away", shown |-> <<>>, chan |-> <<>>, missed |-> FALSE]
Done == <<0>>  \* the event that the job ended

\* Every variable has its type, and no channel and no buffer holds too much.
LogTypeOK ==
    /\ logStatus \in {"running", "reported", "swept"}
    /\ Cardinality(live) <= 1 /\ Len(Of(live).buf) <= MaxLive /\ Of(live).subs \subseteq Watchers
    /\ agent.out \in 0 .. MaxOutput /\ agent.at <= agent.out
    /\ \A w \in Watchers : /\ watcher[w].doing \in {"away", "let in", "watching", "told", "cut off"}
                           /\ Len(watcher[w].chan) <= Room

-----------------------------------------------------------------------------

LogInit ==
    /\ logStatus = "running" /\ live = {} /\ restarted = FALSE
    /\ agent = [out |-> 0, at |-> 0, sending |-> {}]
    /\ watcher = [w \in Watchers |-> Away]

Print1 ==
    /\ logStatus = "running" /\ agent.out < MaxOutput
    /\ agent' = [agent EXCEPT !.out = @ + 1]
    /\ UNCHANGED <<logStatus, live, watcher, restarted>>

\* The agent's request is let in while the job is running.
Send ==
    /\ agent.sending = {} /\ agent.at < agent.out /\ logStatus = "running"
    /\ agent' = [agent EXCEPT !.sending = {[from |-> agent.at, to |-> agent.out]}]
    /\ UNCHANGED <<logStatus, live, watcher, restarted>>

\* An event goes to every subscriber whose channel has room; the others miss it.
Given(l, event) ==
    [w \in Watchers |->
        IF w \notin l.subs \/ watcher[w].doing # "watching" THEN watcher[w]
        ELSE IF Len(watcher[w].chan) < Room THEN [watcher[w] EXCEPT !.chan = Append(@, event)]
        ELSE [watcher[w] EXCEPT !.missed = TRUE]]

\* A mutant: what the Hub already has is taken again.
NewOfAll(l, from, to) == [i \in 1 .. to - from |-> from + i]

\* The part of the lines from .. to that the Hub has not seen.
NewOf(l, from, to) ==
    LET skip == IF from < l.total THEN l.total - from ELSE 0 IN
    [i \in 1 .. (IF to - from > skip THEN to - from - skip ELSE 0) |-> from + skip + i]

\* A mutant: the whole output is kept.
LastOfAll(s) == s

\* The tail the Hub keeps in memory.
LastOf(s) == IF Len(s) <= MaxLive THEN s ELSE SubSeq(s, Len(s) - MaxLive + 1, Len(s))

\* The Hub adds it to the job's log, which it makes if it has none, and answers
\* how much it has; the answer may be lost.
AppendLog(lost) ==
    \E s \in agent.sending :
        LET l == Of(live)
            new == NewOf(l, s.from, s.to)
            after == IF l.over \/ new = <<>> THEN l
                     ELSE [l EXCEPT !.total = @ + Len(new), !.buf = LastOf(@ \o new)] IN
        /\ live' = {after}
        /\ watcher' = IF after = l THEN watcher ELSE Given(l, new)
        /\ agent' = [agent EXCEPT !.sending = {},
                                  !.at = IF lost THEN @ ELSE IF after.total < agent.out THEN after.total ELSE agent.out]
        /\ UNCHANGED <<logStatus, restarted>>

\* Complete saves the outcome, and the watchers of a log the Hub has are told.  A
\* report after the job was swept still counts.
ReportEnd ==
    /\ logStatus # "reported" /\ agent.sending = {}
    /\ logStatus' = "reported"
    /\ IF live = {} THEN UNCHANGED <<live, watcher>>
       ELSE /\ live' = {[Of(live) EXCEPT !.over = TRUE]}
            /\ watcher' = Given(Of(live), Done)
    /\ UNCHANGED <<agent, restarted>>

\* failStuckJobs and cancelStaleInteractiveJobs end the job in the database only.
SweepJob ==
    /\ logStatus = "running"
    /\ logStatus' = "swept"
    /\ UNCHANGED <<live, agent, watcher, restarted>>

\* finishedLinger after the end, the log is forgotten.
Forget ==
    /\ Of(live).over
    /\ live' = {}
    /\ UNCHANGED <<logStatus, agent, watcher, restarted>>

-----------------------------------------------------------------------------

\* A browser asks: a job that has ended is answered from the database ...
Open(w) ==
    /\ watcher[w].doing = "away"
    /\ watcher' = [watcher EXCEPT ![w].doing = IF logStatus = "running" THEN "let in" ELSE "told"]
    /\ UNCHANGED <<logStatus, live, agent, restarted>>

\* ... and otherwise the watcher gets the output so far and a channel of what
\* follows, both under the lock.
Subscribe(w) ==
    LET l == Of(live) IN
    /\ watcher[w].doing = "let in"
    /\ live' = {IF l.over THEN l ELSE [l EXCEPT !.subs = @ \cup {w}]}
    /\ watcher' = [watcher EXCEPT ![w].shown = l.buf, ![w].doing = IF l.over THEN "told" ELSE "watching"]
    /\ UNCHANGED <<logStatus, agent, restarted>>

\* It shows what comes, up to the end.
Show(w) ==
    LET event == Head(watcher[w].chan) IN
    /\ watcher[w].doing = "watching" /\ watcher[w].chan # <<>>
    /\ watcher' = [watcher EXCEPT ![w].chan = Tail(@),
                                  ![w].shown = IF event = Done THEN @ ELSE @ \o event,
                                  ![w].doing = IF event = Done THEN "told" ELSE @]
    /\ live' = {[l EXCEPT !.subs = IF event = Done THEN @ \ {w} ELSE @] : l \in live}
    /\ UNCHANGED <<logStatus, agent, restarted>>

\* The browser goes away.
Leave(w) ==
    /\ watcher[w].doing \in {"let in", "watching"}
    /\ watcher' = [watcher EXCEPT ![w] = [Away EXCEPT !.doing = "cut off"]]
    /\ live' = {[l EXCEPT !.subs = @ \ {w}] : l \in live}
    /\ UNCHANGED <<logStatus, agent, restarted>>

\* A restart loses the live view and cuts the watchers off.
LogHubRestart ==
    /\ ~restarted /\ restarted' = TRUE /\ live' = {}
    /\ agent' = [agent EXCEPT !.sending = {}]
    /\ watcher' = [w \in Watchers |-> IF watcher[w].doing \in {"let in", "watching"}
                                      THEN [Away EXCEPT !.doing = "cut off"] ELSE watcher[w]]
    /\ UNCHANGED logStatus

LogNext ==
    \/ Print1 \/ Send \/ (\E lost \in BOOLEAN : AppendLog(lost))
    \/ ReportEnd \/ SweepJob \/ Forget \/ LogHubRestart
    \/ \E w \in Watchers : Open(w) \/ Subscribe(w) \/ Show(w) \/ Leave(w)

LogSpec == LogInit /\ [][LogNext]_logVars

-----------------------------------------------------------------------------

InTurn(s) == \A i \in 1 .. Len(s) - 1 : s[i + 1] = s[i] + 1

\* The last line of s, 0 if there is none.
EndOf(s) == IF s = <<>> THEN 0 ELSE s[Len(s)]

\* What w sees: what it was shown, then the events that wait for it.
Seen(w) == <<watcher[w].shown>> \o watcher[w].chan

\* A watcher that keeps up sees the output from where the Hub's tail began, every
\* line once and in order, whatever the agent repeats and the answers that are
\* lost: each piece goes on where the one before it ended, and the last ends where
\* the Hub is.  Once the job has reported, the end is on its way to whoever was
\* watching, after all the output.  (After a restart of the Hub the agent's
\* offsets and the Hub's count differ.)
LiveViewIsExact ==
    ~restarted =>
        \A w \in Of(live).subs :
            LET seen == Seen(w)
                lines == IF Of(live).over THEN Len(seen) - 1 ELSE Len(seen) IN
            watcher[w].doing = "watching" /\ ~watcher[w].missed =>
                /\ lines > 0
                /\ InTurn(seen[1])
                /\ \A i \in 2 .. lines : InTurn(seen[i]) /\ seen[i][1] = EndOf(seen[i - 1]) + 1
                /\ EndOf(seen[lines]) = Of(live).total
                /\ Of(live).over => seen[lines + 1] = Done
=============================================================================
