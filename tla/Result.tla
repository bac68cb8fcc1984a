------------------------------- MODULE Result -------------------------------
(***************************************************************************)
(* Result (smw_types/include/result.h): what a call returns, Ok or an      *)
(* error.  A Result<ErrorType> stores an error in any case, that of an Ok  *)
(* is the zero of its type; a Result<ValueType, ErrorType> stores one of   *)
(* the two.  The callables given to orElse and andThen see a set of at     *)
(* most one element.                                                       *)
(***************************************************************************)

CONSTANT NoError  \* a value-initialised ErrorType, none of its enumerators

\* Result<ErrorType>, Ok() and Err(error).
Ok         == [m_has_error |-> FALSE, m_store |-> NoError]
Err(error) == [m_has_error |-> TRUE, m_store |-> error]

\* Result<ValueType, ErrorType>, Ok(value).
OkValue(value) == [m_has_error |-> FALSE, m_store |-> value]

hasError(result) == result.m_has_error
getError(result) == result.m_store
getValue(result) == result.m_store

orElse(result)  == IF hasError(result) THEN {getError(result)} ELSE {}
andThen(result) == IF hasError(result) THEN {} ELSE {getValue(result)}

=============================================================================
