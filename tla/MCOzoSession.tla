---------------------------- MODULE MCOzoSession ----------------------------
(***************************************************************************)
(* OzoSession for TLC: strategies that retry everything, lost connections, *)
(* or what the database refused, too few tries, and roles of which some    *)
(* cannot recover an error; codes of each kind.                            *)
(***************************************************************************)
EXTENDS OzoSession

Retry(n, c, close) ==
    [kind |-> "retry", tries |-> n, conditions |-> c, roles |-> <<>>, close_connection |-> close]
RoleBased(r, close) ==
    [kind |-> "role_based", tries |-> 0, conditions |-> {}, roles |-> r, close_connection |-> close]

\* Class 40, transaction rollback, and one of its states.
Class40 == 144 * class_width
MCStrategies ==
    {Retry(3, {[errc |-> "connection_error"]}, TRUE), Retry(2, {}, FALSE), Retry(0, {}, TRUE),
     Retry(3, {[state |-> Class40], [errc |-> "database_readonly"]}, TRUE),
     RoleBased(<<"master", "replica", "replica">>, TRUE),
     RoleBased(<<"replica", "replica", "master">>, TRUE),
     RoleBased(<<"master", "replica">>, FALSE)}
MCCodes ==
    {Sqlstate(Class40 + 1), Sqlstate(read_only_sql_transaction), Sqlstate(Class40 + class_width),
     Named("asio", "timed_out"), Named("ozo", "pg_consume_input_failed"),
     Named("ozo", "pq_connect_poll_failed"), Named("ozo", "oid_type_mismatch"),
     Named("yamail", "get_resource_timeout")}
MCLimits == {NoLimit, 2, 5}
MCBeginWith ==
    {[o \in {"isolation_level", "mode"} |->
        IF o = "mode" THEN "read_only" ELSE level] : level \in {"none", "serializable"}}
    \cup {[o \in {"mode", "deferrability"} |-> "none"]}
=============================================================================
