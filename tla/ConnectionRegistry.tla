-------------------------- MODULE ConnectionRegistry --------------------------
(* The connection manager implements the register of Registry.                *)
EXTENDS ConnectionManager

\* An object is reclaimed when its reference counter drops to zero.
stageOf(c) == IF opener[c] = "new" THEN "new"
              ELSE IF count[c] > 0 THEN "live" ELSE "reclaimed"

R == INSTANCE Registry WITH stage   <- [c \in Connection |-> stageOf(c)],
                            members <- Registered,
                            lent    <- held

\* Every step of open(), handle_close(), the lookups, the abort methods and the
\* release of a reference is a step of the register or changes nothing a client
\* can see: at most Maximum members, only live objects are found, and none is
\* reclaimed while the list or a thread still has it.
ImplementsRegistry == R!Spec
=============================================================================
