------------------------------ MODULE VisaStatus ------------------------------
(***************************************************************************)
(* The status every VISA call returns (ViStatus), as tclvisa sorts it: a   *)
(* negative status is an error, zero is success, a positive status is a    *)
(* warning that the code treats as success nearly everywhere.  One status  *)
(* stands for each class the code tells apart.                             *)
(***************************************************************************)
EXTENDS Sequences

SUCCESS    == "VI_SUCCESS"
WARN       == "VI_WARN_NSUP_ATTR_STATE"
TMO        == "VI_ERROR_TMO"          \* suppressed by the I/O procedures
CONN_LOST  == "VI_ERROR_CONN_LOST"    \* any listed error with a code in brackets
FILE_ERROR == "VI_ERROR_FILE_ACCESS"  \* listed, but its message names no code
UNLISTED   == "VI_ERROR_ABORT"        \* an error the message table does not list

ViStatus == {SUCCESS, WARN, TMO, CONN_LOST, FILE_ERROR, UNLISTED}

\* `status < 0`, the test of every caller.
IsError(status) == status \notin {SUCCESS, WARN}

TCL_OK    == "TCL_OK"
TCL_ERROR == "TCL_ERROR"

\* `return status < 0 ? TCL_ERROR : TCL_OK`, the last line of most commands.
CommandResult(status) == IF IsError(status) THEN TCL_ERROR ELSE TCL_OK

(***************************************************************************)
(* visaErrorMessage returns "[CODE] text".  What matters of the string is  *)
(* how strtok(., "[]") splits it: into the code and the text, or, for the  *)
(* two file errors whose message has no brackets, into the text alone.     *)
(***************************************************************************)
Code(status) == <<"code", status>>
Text(status) == <<"text", status>>

\* The strings outside the table.
UNKNOWN == "UNKNOWN"

visaErrorMessage(status) ==
  CASE status = FILE_ERROR -> <<Text(status)>>
    [] status = UNLISTED   -> <<Code(UNKNOWN), Text(UNKNOWN)>>
    [] OTHER               -> <<Code(status), Text(status)>>
================================================================================
