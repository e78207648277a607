------------------------------- MODULE Console -------------------------------
(***************************************************************************)
(* The command line (pfm_cli.c): what a line of input makes the program do *)
(* and what pfm_cli_exec returns to its caller's loop.  Words are objects  *)
(* and actions by name, for every abbreviation the code accepts stands for *)
(* one name only (no two objects, and no two actions of one object, begin  *)
(* with the same letter); any other word is one of Unknown.                *)
(***************************************************************************)
EXTENDS Naturals, Sequences

(* pfm_cli_init: the objects, and the actions of each.                     *)
Objects == {"help", "disconnect", "shutdown", "link", "ipv4", "arp", "route"}

ActionsOf(object) ==
  CASE object \in {"link", "ipv4"} -> {"list", "show"}
    [] object \in {"arp", "route"} -> {"list"}
    [] OTHER -> {}

Unknown == {"17"}
Words == Objects \union {"list", "show"} \union Unknown
Lines == UNION {[1 .. n -> Words] : n \in 0 .. 3}

(* What is called, and what pfm_cli_exec returns.                          *)
Does(call, ret) == [call |-> call, ret |-> ret]
Says(ret) == Does("nothing", ret)

(* object_callback_help, with the words after "help".                      *)
object_callback_help(args) ==
  IF args = <<>> THEN Says("CONTINUE")
  ELSE IF \/ args[1] \notin Objects
          \/ Len(args) = 1 \/ args[2] \notin ActionsOf(args[1])
  THEN Says("ERROR")
  ELSE Says("CONTINUE")

(* The callback of an action, with the words after it.                     *)
action_callback(object, action, args) ==
  IF action = "list" THEN Does(object, "CONTINUE")
  ELSE IF args = <<>> \/ (object = "link" /\ args[1] \notin Unknown) THEN Says("ERROR")
  ELSE Does(object, "CONTINUE")

(* The callback of an object without an action; the console is stdout.     *)
object_callback(object) ==
  CASE object = "disconnect" -> Says("CONTINUE")
    [] object = "shutdown" -> Does("pfm_terminate", "SHUTDOWN")
    [] OTHER -> Says("ERROR")

pfm_cli_exec(line) ==
  IF line = <<>> THEN Says("CONTINUE")
  ELSE IF line[1] \notin Objects THEN Says("ERROR")
  ELSE IF line[1] = "help" THEN object_callback_help(Tail(line))
  ELSE IF Len(line) = 1 THEN object_callback(line[1])
  ELSE IF line[2] \notin ActionsOf(line[1]) THEN Says("ERROR")
  ELSE action_callback(line[1], line[2], SubSeq(line, 3, Len(line)))
=============================================================================
