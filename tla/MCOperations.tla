------------------------------ MODULE MCOperations ------------------------------
(***************************************************************************)
(* A small instance of Operations: three occurrences, in UTC and in a zone  *)
(* on either side of it.                                                    *)
(***************************************************************************)
EXTENDS Operations

MCSetting(z, automatic) == [offset |-> z, auto |-> automatic]

MCSettings == {MCSetting(0, FALSE), MCSetting(0, TRUE), MCSetting(1, TRUE), MCSetting(-1, TRUE)}
MCAhead == {MCSetting(1, FALSE)}
MCJobs == {[at |-> 0, ok |-> FALSE]} \cup [at: 1..4, ok: {TRUE}]
=================================================================================
