--------------------------- MODULE MCConnections ----------------------------
(* Instances of Connections for TLC. *)
EXTENDS Connections

CONSTANTS a, b, k1, k2

TwoCalls == {a, b}
TwoKeys == {k1, k2}
BothAdapters == {"postgres", "mysql"}

Stored(type, password, right) == [type |-> type, password |-> password, right |-> right]

SomeSettings ==
    {Stored("Postgres", "plain", TRUE), Stored("postgres", "slash", TRUE),
     Stored("postgresql", "plain", TRUE), Stored("mysql", "slash", FALSE)}

Service(op, ref, inline) == [via |-> "service", op |-> op, ref |-> ref, inline |-> inline]
Mcp(op) == [via |-> "mcp", op |-> op, ref |-> 1, inline |-> None]

ServiceRequests ==
    {Service(op, 1, None) : op \in {"test", "profile", "write"}}
    \cup {Service("sample", None, Stored("oracle", "plain", TRUE)),
          Service("tables", None, Stored("mysql", "plain", TRUE))}
McpRequests == {Mcp(op) : op \in {"list_tables", "recent"}}

\* One call of each program.
SomeRequests == [c \in TwoCalls |-> IF c = a THEN ServiceRequests ELSE McpRequests]

TwoColumns == {"a", "b"}
SomeSamples == {<<"number", "null", "number">>, <<"text", "time", "number">>}
=============================================================================
