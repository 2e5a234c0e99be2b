------------------------------- MODULE Commands -------------------------------
(***************************************************************************)
(* The commands an SMS can hold: the table of sms_cmd_handler.h, and the   *)
(* dispatcher that walks it (source/cmd_dispatcher.c).  A text is the      *)
(* sequence of its tokens, in lower case: the dispatcher splits at blanks  *)
(* and slashes and compares without case.                                  *)
(***************************************************************************)
EXTENDS Naturals, Sequences

CONSTANTS GroupNumbers, ZoneNumbers,   \* the tokens that name one, from 1
          MaxTokens                    \* CMD_MAX_TOKENS

(* The paths of the table; a name with others below it has no handler.     *)
Table == {<<"get">>, <<"set">>, <<"help">>,
          <<"get", "group">>, <<"get", "system">>, <<"get", "zone">>,
          <<"get", "group", "status">>, <<"get", "system", "status">>,
          <<"get", "zone", "status">>}

Below(path) == {p \in Table : Len(p) = Len(path) + 1 /\ SubSeq(p, 1, Len(path)) = path}

(* findCommand, and `help' in place of an unknown name where there is one. *)
Find(path, token) ==
  {p \in Below(path) : p[Len(p)] = token}

FindOrHelp(path, token) ==
  IF Find(path, token) # {} THEN Find(path, token) ELSE Find(path, "help")

(* handleGetGroupStatus, handleGetZoneStatus: the number must be there and *)
(* name one; the others take anything.                                     *)
Handler(path, rest) ==
  LET named(numbers) == IF Len(rest) > 0 /\ rest[1] \in numbers THEN "OK" ELSE "INVALID_ARGS" IN
    CASE path = <<"get", "group", "status">> -> named(GroupNumbers)
      [] path = <<"get", "zone", "status">> -> named(ZoneNumbers)
      [] path \in {<<"set">>, <<"help">>, <<"get", "system", "status">>} -> "OK"
      [] OTHER -> "UNKNOWN"

Executed(path, tokens) ==
  LET execCommandTree[n \in 0..Len(tokens), p \in Table \union {<<>>}] ==
        IF n = Len(tokens) THEN "INCOMPLETE"
        ELSE IF FindOrHelp(p, tokens[n + 1]) = {} THEN "UNKNOWN"
        ELSE LET cmd == CHOOSE c \in FindOrHelp(p, tokens[n + 1]) : TRUE
                 sub == IF Below(cmd) = {} THEN "UNKNOWN"
                        ELSE execCommandTree[n + 1, cmd] IN
               IF sub # "UNKNOWN" THEN sub
               ELSE Handler(cmd, SubSeq(tokens, n + 2, Len(tokens)))
  IN execCommandTree[0, path]

(* cmdProcess: no more tokens than there is room for.                      *)
cmdProcess(text) ==
  LET tokens == SubSeq(text, 1, IF Len(text) < MaxTokens THEN Len(text) ELSE MaxTokens) IN
    IF tokens = <<>> THEN "INVALID_ARGS" ELSE Executed(<<>>, tokens)
===============================================================================
