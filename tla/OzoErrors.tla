----------------------------- MODULE OzoErrors ------------------------------
(***************************************************************************)
(* ozo's error codes and conditions.  A code has a category: sqlstate, with *)
(* the five characters of the state read as a number in base 36, or one of *)
(* the libraries', with a name.  A condition is a named set of codes       *)
(* (errc), or an SQL state, which stands for its class if it ends in 000.  *)
(***************************************************************************)
EXTENDS Integers

Sqlstate(v) == [cat |-> "sqlstate", name |-> "state", value |-> v]
Named(c, n) == [cat |-> c, name |-> n, value |-> 0]
NoError == Named("none", "success")

class_width == 36 * 36 * 36

\* The classes that sqlstate's category::equivalent lists, by their first two
\* characters in base 36.
SqlClasses ==
    {c * class_width : c \in {1, 2, 3, 8, 9, 10, 11, 15, 21, 25, 35, 72, 73, 74, 75, 76, 77, 78,
        79, 80, 83, 85, 87, 112, 116, 117, 119, 121, 123, 144, 146, 148, 183, 184, 185, 187, 188,
        254, 540, 643, 900, 1221}}

\* A listed condition stands for its class, any other one for itself.
SqlEquivalent(code, condition) ==
    /\ code.cat = "sqlstate"
    /\ IF condition \in SqlClasses
       THEN code.value >= condition /\ code.value < condition + class_width
       ELSE code.value = condition

read_only_sql_transaction == 3592518
connection_exception == 373248

AsioConnectionErrors ==
    {"broken_pipe", "connection_aborted", "connection_refused", "connection_reset", "fault",
     "host_unreachable", "interrupted", "network_reset", "not_connected", "operation_aborted",
     "shut_down", "timed_out", "try_again", "host_not_found", "host_not_found_try_again", "no_data",
     "no_recovery", "io_error"}

OzoConnectionErrors ==
    {"pq_connection_start_failed", "pq_socket_failed", "pq_connection_status_bad",
     "pq_connect_poll_failed", "pg_send_query_params_failed", "pg_consume_input_failed",
     "pg_set_nonblocking_failed", "pg_flush_failed"}

IntrospectionErrors ==
    {"bad_result_process", "bad_object_size", "bad_array_size", "bad_array_dimension",
     "bad_composite_size", "unexpected_eof"}

ProtocolErrors ==
    {"no_sql_state_found", "result_status_unexpected", "result_status_empty_query",
     "result_status_bad_response", "oid_request_failed"}

\* errc's category::equivalent over codes_for_condition.
ErrcEquivalent(code, condition) ==
    CASE condition = "connection_error" ->
             \/ SqlEquivalent(code, connection_exception)
             \/ code.cat = "asio" /\ code.name \in AsioConnectionErrors
             \/ code.cat = "ozo" /\ code.name \in OzoConnectionErrors
      [] condition = "database_readonly" -> SqlEquivalent(code, read_only_sql_transaction)
      [] condition = "introspection_error" -> code.cat = "ozo" /\ code.name \in IntrospectionErrors
      [] condition = "type_mismatch" -> code = Named("ozo", "oid_type_mismatch")
      [] condition = "protocol_error" -> code.cat = "ozo" /\ code.name \in ProtocolErrors

\* A condition is a record: [errc |-> name] or [state |-> number].
match_code(conditions, code) ==
    \E c \in conditions : IF "errc" \in DOMAIN c THEN ErrcEquivalent(code, c.errc)
                          ELSE SqlEquivalent(code, c.state)
=============================================================================
