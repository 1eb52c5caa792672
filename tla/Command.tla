------------------------------ MODULE Command ------------------------------
(***************************************************************************)
(* The command line of execute and the argument it leaves in the new PCB,  *)
(* as pure operators: step 1 of execute (the parse), args_initialize, and  *)
(* the checks and copy of getargs.                                         *)
(*                                                                         *)
(* A command is the string before its NUL, as a sequence of bytes; only    *)
(* whether a byte is ASCII_SPACE matters to the code, so every other byte  *)
(* is "x".  The argument is kept as the string getargs's caller sees: the  *)
(* bytes of argument_buffer before its NUL.                                *)
(***************************************************************************)
EXTENDS Integers, Sequences, SequencesExt

ASCII_SPACE == " "
FAIL        == -1
SUCCESS     == 0

Bytes == {"x", ASCII_SPACE}

IsSpace(b) == b = ASCII_SPACE

(* The positions execute records in char_space_indices (0-based), in order. *)
CharSpaceIndices(command) ==
    SetToSortSeq({i \in 0 .. Len(command) - 1 : IsSpace(command[i + 1])}, <)

NumSpaces(command) == Len(CharSpaceIndices(command))

(* prog_name_len: the whole string, or up to the first space.             *)
ProgNameLen(command) ==
    IF NumSpaces(command) = 0 THEN Len(command)
    ELSE CharSpaceIndices(command)[1]

(* Step 1 of execute gets past its early returns: the command is not "",   *)
(* the program name is not empty and there is at most one space.           *)
ParseOk(command) ==
    /\ command # <<>>
    /\ ProgNameLen(command) # 0
    /\ NumSpaces(command) <= 1

(* Mutant of args_initialize: start = count, so the argument keeps the     *)
(* space that ends the program name.                                       *)
ArgsInitializeKeepSpace(command) ==
    IF NumSpaces(command) = 0
    THEN [argument_length |-> 1, argument |-> <<>>]
    ELSE LET start == CharSpaceIndices(command)[1]
         IN  [argument_length |-> Len(command) - start + 1,
              argument        |-> SubSeq(command, start + 1, Len(command))]

(* Mutant of args_initialize: argument_length = mem_length, without the    *)
(* terminator.                                                            *)
ArgsInitializeNoTerminator(command) ==
    IF NumSpaces(command) = 0
    THEN [argument_length |-> 1, argument |-> <<>>]
    ELSE LET start == CharSpaceIndices(command)[1] + 1
         IN  [argument_length |-> Len(command) - start,
              argument        |-> SubSeq(command, start + 1, Len(command))]

(* args_initialize: with no space the argument is "" (length 1, the NUL);  *)
(* otherwise it is every byte after the first space up to the command's    *)
(* NUL, and argument_length counts its terminator.                        *)
ArgsInitialize(command) ==
    IF NumSpaces(command) = 0
    THEN [argument_length |-> 1, argument |-> <<>>]
    ELSE LET start == CharSpaceIndices(command)[1] + 1
         IN  [argument_length |-> Len(command) - start + 1,
              argument        |-> SubSeq(command, start + 1, Len(command))]

(* `argument_length > nbytes`: argument_length is uint32_t, so the        *)
(* int32_t nbytes is converted to unsigned, and a negative one becomes     *)
(* nbytes + 2^32, larger than any argument_length (at most ARG_BUFF_SIZE). *)
LongerThan(argument_length, nbytes) == nbytes >= 0 /\ argument_length > nbytes

(* Mutant of getargs: the size check written >=, so a buffer that holds    *)
(* the argument and its NUL exactly is refused.                            *)
GetargsRefusesExact(args, buf_null, nbytes) ==
    CASE buf_null                                        -> FAIL
      [] args.argument_length <= 1                       -> FAIL
      [] LongerThan(args.argument_length, nbytes)
           \/ args.argument_length = nbytes              -> FAIL
      [] OTHER                                           -> SUCCESS

(* getargs's checks, in order: buf NULL, no argument (length <= 1), an     *)
(* argument longer than nbytes; otherwise memcpy and SUCCESS.             *)
Getargs(args, buf_null, nbytes) ==
    CASE buf_null                                        -> FAIL
      [] args.argument_length <= 1                       -> FAIL
      [] LongerThan(args.argument_length, nbytes)        -> FAIL
      [] OTHER                                           -> SUCCESS

(* The memcpy of a successful getargs copies nbytes bytes as a size_t; a  *)
(* negative nbytes is 2^31 bytes or more and runs off mapped memory.      *)
CopyFaults(nbytes) == nbytes < 0

-----------------------------------------------------------------------------
(* testCP3_execute's command lines, with every byte but a space as "x".   *)
Word(n) == [i \in 1 .. n |-> "x"]
Sp == <<ASCII_SPACE>>

(* The lines it expects execute to refuse before any file lookup: "",     *)
(* four spaces, and "lots of words and spaces".                           *)
TestCP3ParseRefused ==
    {<<>>, Sp \o Sp \o Sp \o Sp,
     Word(4) \o Sp \o Word(2) \o Sp \o Word(5) \o Sp \o Word(3) \o Sp \o Word(6)}

(* The one-word lines "catb", "garbage", "frame0.txt" and "ls", which get *)
(* past the parse and fail (or, for ls, run) on the file they name.       *)
TestCP3ParseAccepted == {Word(4), Word(7), Word(10), Word(2)}

-----------------------------------------------------------------------------
(* The spec's getargs(buffer, n), for a process spawned with command:     *)
(* the argument is the second space-delimited token; getargs fails when   *)
(* there is none or when it and its terminator do not fit in n bytes.     *)
Tokens(command) ==
    SelectSeq(FoldLeft(LAMBDA acc, b :
                           IF IsSpace(b) THEN Append(acc, <<>>)
                           ELSE [acc EXCEPT ![Len(acc)] = Append(@, b)],
                       <<<<>>>>, command),
              LAMBDA t : t # <<>>)

SpecArgument(command) ==
    IF Len(Tokens(command)) >= 2 THEN Tokens(command)[2] ELSE <<>>

SpecGetargs(command, n) ==
    IF SpecArgument(command) = <<>> \/ Len(SpecArgument(command)) + 1 > n
    THEN [ret |-> FAIL, data |-> <<>>]
    ELSE [ret |-> SUCCESS, data |-> SpecArgument(command)]

=============================================================================
