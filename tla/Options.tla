------------------------------- MODULE Options --------------------------------
(***************************************************************************)
(* The command line: what parseArguments makes of it, and what main makes  *)
(* of that: which renderer it looks for and on which ports it serves, or   *)
(* why it ends at once.  A few options stand for all: those with a value   *)
(* (the last one counts) and those without.                                *)
(***************************************************************************)
EXTENDS Naturals, SequencesExt

CONSTANT MaxOptions     \* bound: options in a line

Valued == {"--renderer", "--renderer-uuid", "--renderer-url", "--http-port"}
Flags  == {"--verbose", "--list-renderers", "--version"}

\* Values, one of which looks like an option; and what atoi makes of them.
Values == {"x", "--version", "65535", "70000"}
atoi(v) == CASE v = "65535" -> 65535 [] v = "70000" -> 70000 [] OTHER -> 0

\* The configuration: why the program ends, if it does, the options with their
\* values ("" is the default), and the option whose value comes next.
Config0 == [end |-> "none", given |-> [opt \in Valued \cup Flags |-> ""], pending |-> ""]

\* An option, with or without arguments after it.
ReadOption(c, arg, more) ==
    CASE arg = "--help"         -> [c EXCEPT !.end = "help"]
      [] arg \in Valued /\ more -> [c EXCEPT !.pending = arg]
      [] arg \in Flags          -> [c EXCEPT !.given[arg] = "set"]
      [] OTHER                  -> [c EXCEPT !.end = "error"]

\* Slip: the value of an option is looked at again, as an option.
ReadValueAgain(c, arg, more) ==
    ReadOption([c EXCEPT !.given[c.pending] = arg, !.pending = ""], arg, more)

ReadValue(c, arg, more) == [c EXCEPT !.given[c.pending] = arg, !.pending = ""]

ReadArg(c, arg, more) ==
    IF c.end # "none" THEN c
    ELSE IF c.pending # "" THEN ReadValue(c, arg, more) ELSE ReadOption(c, arg, more)

parseArguments(args) ==
    LET after[i \in 0..Len(args)] ==
            IF i = 0 THEN Config0 ELSE ReadArg(after[i - 1], args[i], i < Len(args))
    IN  after[Len(args)]

\* main: what it does with them.
uint16(k) == k % 65536
started(args) ==
    LET parsed   == parseArguments(args)
        val(opt) == parsed.given[opt]
        has(opt) == val(opt) # ""
        portA    == uint16(atoi(val("--http-port")))
    IN  [end      |-> IF parsed.end # "none" THEN parsed.end
                      ELSE IF has("--version") THEN "version"
                      ELSE IF has("--list-renderers") THEN "list" ELSE "none",
         renderer |-> IF has("--renderer-url") THEN <<"url", val("--renderer-url")>>
                      ELSE IF has("--renderer-uuid") THEN <<"match", val("--renderer-uuid")>>
                      ELSE <<"match", val("--renderer")>>,
         ports    |-> <<portA, IF portA = 0 THEN 0 ELSE uint16(portA + 1)>>]

-----------------------------------------------------------------------------
VARIABLE line       \* the options as they were meant: each with its value

OptionsInit == line = <<>>
Group == (Valued \X Values) \cup { <<f>> : f \in Flags \cup {"--help", "--bogus"} }
OptionsNext == Len(line) < MaxOptions /\ \E g \in Group : line' = Append(line, g)
OptionsSpec == OptionsInit /\ [][OptionsNext]_line

\* Where an option stands in the line, and the last value it was given.
Places(opt)    == { k \in DOMAIN line : line[k][1] = opt }
LastValue(opt) == IF Places(opt) = {} THEN "" ELSE line[Max(Places(opt))][2]
PortPair(k)    == IF k = 0 THEN <<0, 0>> ELSE IF k = 65535 THEN <<65535, 0>> ELSE <<k, k + 1>>

(* main.cpp:146-262, 402-411, 425-436, 467-472: each option has the effect *)
(* it was given for, whatever stands before and after it: the last value   *)
(* counts, a value is never taken for an option, a URL goes before a UUID  *)
(* and that before a name, and the second port is the next one (for 65535  *)
(* it wraps to "any").                                                     *)
StartsAsAsked ==
    LET ends == Places("--help") \cup Places("--bogus")
        s    == started(FlattenSeq(line))
    IN  IF ends # {}
        THEN s.end = IF Min(ends) \in Places("--help") THEN "help" ELSE "error"
        ELSE /\ s.end = "version" <=> Places("--version") # {}
             /\ s.end = "list" <=> Places("--version") = {} /\ Places("--list-renderers") # {}
             /\ s.renderer = IF Places("--renderer-url") # {} THEN <<"url", LastValue("--renderer-url")>>
                             ELSE <<"match", IF Places("--renderer-uuid") # {}
                                             THEN LastValue("--renderer-uuid")
                                             ELSE LastValue("--renderer")>>
             /\ s.ports = PortPair(uint16(atoi(LastValue("--http-port"))))
=============================================================================
