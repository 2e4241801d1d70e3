------------------------------ MODULE MCGateway ------------------------------
(* Small instance of Gateway: two connections and three requests in a run,     *)
(* of one family at a time.                                                    *)
EXTENDS Gateway

CONSTANTS u1, u2, s1, s2, text, secret

MCContents == {text, secret}
MCTextLevel == [c \in {text, secret, NoContent} |->
                  IF c = secret THEN "critical" ELSE "none"]
MCResolves == [r \in {"good", "other", "bad"} |-> IF r = "bad" THEN NoText ELSE r]

Turn(u, s, h, k, ref) ==
    [kind |-> "turn", user |-> u, session |-> s, key |-> k, event |-> h,
     host |-> h, ref |-> ref, defect |-> "none"]

Chat == [kind |-> "event", defect |-> "none", user |-> u1, session |-> s1, key |-> "k1", id |-> "e1",
         actor |-> u1, src |-> "chat", type |-> "user_message", status |-> "raw",
         consent |-> "memory_only", sens |-> "none", matched |-> FALSE,
         ignore |-> FALSE, checked |-> FALSE, call |-> FALSE, turn |-> TRUE,
         structured |-> TRUE, content |-> text, age |-> "today",
         occurred |-> 0, captured |-> 0]

Defective == [Chat EXCEPT !.defect = "trace"]

Tool == [Chat EXCEPT !.id = "e3", !.key = "k3", !.src = "tool_result",
                     !.type = "agent_response", !.call = TRUE]

ToolAgain == [Tool EXCEPT !.key = "k5"]

Simple == {[kind |-> k] : k \in {"version", "echo", "frame", "large"}}
          \cup {[kind |-> "health", database |-> "ok", worker |-> w] : w \in {"none"}}
Turns == {Turn(u1, s1, "h1", "k1", "good"), Turn(u1, s1, "h1", "k2", "other"),
          Turn(u1, s1, "h2", "k2", "good"), Turn(u2, s1, "h1", "k1", "good"),
          Turn(u1, s1, "h3", "k3", "bad"),
          [Turn(u1, s1, "h1", "k1", "good") EXCEPT !.defect = "retry of itself"]}
Events == {Chat, [Chat EXCEPT !.key = "k2"], [Chat EXCEPT !.id = "e2", !.key = "k2"],
           [Chat EXCEPT !.id = "e2", !.key = "k2", !.user = u2, !.actor = u2],
           [Chat EXCEPT !.id = "e4", !.key = "k4", !.captured = 2],
           Tool, ToolAgain,
           [Chat EXCEPT !.content = secret, !.id = "e5"],
           Defective}
MCRequests == Simple \cup Turns \cup Events

Family(r) == CASE r \in Simple -> "simple" [] r \in Turns -> "turn" [] OTHER -> "event"

\* One family in a run.  Two connections, a pipeline and a peer that goes away
\* with the simple requests; the turns and the events one at a time on one
\* connection, because each is served in one step; one that is refused for a
\* field leaves nothing behind and comes alone.  Tool and ToolAgain differ in
\* nothing but a key of their own: Tool comes first.  One answer comes late.
MCBound ==
    LET asked == UNION {{conns[c].asked[n] : n \in DOMAIN conns[c].asked} : c \in Conns}
        of(f) == \E r \in asked : Family(r) = f
    IN  /\ Cardinality({Family(r) : r \in asked}) <= 1
        /\ of("turn") \/ of("event") =>
             /\ server = "up" /\ conns[2].phase = "none"
             /\ \A c \in Conns :
                  /\ ~conns[c].gone /\ Len(conns[c].asked) - Len(conns[c].told) <= 1
                  /\ Cardinality({n \in DOMAIN conns[c].told :
                                   conns[c].told[n] = Refuse("TIMEOUT", "late")}) <= 1
        /\ Defective \in asked => asked = {Defective}
        /\ ToolAgain \in asked => Tool \in asked
        /\ of("simple") => now = 0 /\ ~conns[2].gone
        /\ asked = {} => now = 0 /\ \A c \in Conns : ~conns[c].gone
=============================================================================
