------------------------------ MODULE Arguments ------------------------------
(***************************************************************************)
(* What the server makes of the arguments and settings it is given: the    *)
(* parsing helpers of internal/tools/common.go, the settings of            *)
(* internal/config/config.go, and the observer's reading of the same       *)
(* arguments (internal/webui/observer.go).                                 *)
(***************************************************************************)

CONSTANT Invalid   \* what a helper returns an error for

\* A boolean argument as it comes in the JSON of a call: left out or null, a
\* boolean, a text (without blanks and in lower case), or anything else.
BoolForms == {"absent", "true", "false", "text yes", "text no", "text other", "number"}

Texts == {"text yes", "text no", "text other"}

\* A text other than true, 1 or yes means no; a number is not looked at.
ParseOptionalBool(form, fallback) ==
  CASE form \in {"true", "false"} -> form = "true"
    [] form \in Texts -> form = "text yes"
    [] OTHER -> fallback

IsConfirmed(form) == ParseOptionalBool(form, FALSE)

\* PVE_ENABLE_* in the environment: true, 1, yes or on.
parseBoolEnv(form) == form \in {"true", "text yes"}

-----------------------------------------------------------------------------
(* classifyTool: the kind of the log entry of a call that was answered.     *)

Kinds == {"TOOL_READ", "TOOL_DRY_RUN", "TOOL_MUTATION", "TOOL_ERROR"}

\* (mutant: the confirmation is looked at before the outcome)
classifyByConfirm(readOnly, confirm, failed) ==
  IF readOnly THEN "TOOL_READ"
  ELSE IF confirm = "true" THEN "TOOL_MUTATION"
  ELSE IF failed THEN "TOOL_ERROR"
  ELSE "TOOL_DRY_RUN"

\* Only a JSON boolean counts as a confirmation here.
classifyTool(readOnly, confirm, failed) ==
  IF failed THEN "TOOL_ERROR"
  ELSE IF readOnly THEN "TOOL_READ"
  ELSE IF confirm = "true" THEN "TOOL_MUTATION"
  ELSE "TOOL_DRY_RUN"
=============================================================================
