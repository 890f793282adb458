----------------------------- MODULE MCFileServer -----------------------------
(* FileServer for TLC: the environments the runs put the server in, and the    *)
(* names it is sent, every sequence of up to five bytes where four fit.       *)
EXTENDS FileServer, SequencesExt, TLC

Symmetry == Permutations(Request) \cup Permutations(Content) \cup Permutations(Reader)

NoCall == {}
ToleratedCrashes == Calls \ {"DeleteRow"}
HarmlessRejections ==
    {"Put", "FindDuplicate", "DropCopy", "Increment", "AttachFile", "CreateStorage",
     "CleanUpBlob", "FindHash", "DeleteFile", "DeleteBlob"}
RedisCalls == {"LookUp", "Fill", "DropKey"}
AnyRead == ReadCalls \cup {"DropKey"}

Byte == {"a", "t", "N", "<", "DEL", "lead", "cont", ".", " ", "\\"}
ShortNames == BoundedSeq(Byte, 5)

PlainNames == {<<" ", "a", ".", "t">>, <<"a">>}
Header(n) == [name |-> n, size |-> 1, contentType |-> "t"]

\* One name that is accepted, one that is refused, and two runes with an extension,
\* one byte too long: the cut leaves half a rune.
PlainHeaders == {Header(<<" ", "a", ".", "t">>), Header(<<"a">>)}
LongHeaders == {Header(<<"a", "lead", "cont", ".", "t">>)}
AllHeaders == PlainHeaders \cup LongHeaders
=============================================================================
