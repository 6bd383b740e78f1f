----------------------------- MODULE SystemStatus -----------------------------
(***************************************************************************)
(* The one global status record of src/core/adx_SystemStatus.cpp.  A status *)
(* is its Type and its ErrorCode; the line number, file hash and handler    *)
(* pointer that travel with them are left out.  Every operation runs inside *)
(* a critical section and is an operator from status to status.             *)
(***************************************************************************)
StatusTypes == {"Ok", "Warning", "Exit", "Error"}

OkStatus == [type |-> "Ok", code |-> "None"]

\* Error: the first error wins, and replaces whatever is not an error.
RaiseError(st, code) ==
  IF st.type # "Error" THEN [type |-> "Error", code |-> code] ELSE st

\* Warning: recorded only when nothing at all is.
RaiseWarning(st, code) ==
  IF st.type = "Ok" THEN [type |-> "Warning", code |-> code] ELSE st

\* Exit: replaces Ok and Warning.
RaiseExit(st, code) ==
  IF st.type \in {"Ok", "Warning"} THEN [type |-> "Exit", code |-> code] ELSE st

\* GetSystemStatus: what it leaves behind after copying the status out.
Fetched(st) == IF st.type = "Warning" THEN OkStatus ELSE st

\* A faulty variant, with which an exit request does not end the loop.
GoOn_OnExit(st) == st.type # "Error"

\* ProcessSystemStatus: whether it tells the main loop to go on.
GoOn(st) == st.type \in {"Ok", "Warning"}
================================================================================
