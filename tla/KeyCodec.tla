-------------------------------- MODULE KeyCodec --------------------------------
(***************************************************************************)
(* How a key is read and written: domain.ParseKey, ParseNamespace and      *)
(* String (internal/domain/key.go), and the codecs that turn a key into a  *)
(* name a backend accepts and back, encodeID and decodeID (gcp/name.go),   *)
(* encodeName and decodeName (azure/name.go).                              *)
(*                                                                         *)
(* A text is a sequence of characters.  It may have come from a client, as *)
(* a key, or from a backend in which people have named secrets, as a name. *)
(* A behaviour spells out one text, so the states are the inputs.          *)
(***************************************************************************)
EXTENDS Naturals, Sequences, FiniteSets

Seqs == INSTANCE SequencesExt
Sets == INSTANCE FiniteSetsExt

CONSTANTS
    Capital,            \* from lower-case letters to their capitals
    Digit,              \* with the digits that stand for an escaped character
    MaxNamespaceDepth,  \* 8 in the code
    MaxSegmentLen,      \* 63
    MaxNameLen,         \* 128
    MaxIDLen,           \* of a Secret Manager ID, 255
    MaxVaultNameLen,    \* of a Key Vault name, 127
    TextChar,           \* the characters of the texts
    MaxText             \* bound: the length of the texts

Lower == DOMAIN Capital
Upper == {Capital[c] : c \in Lower}
Alnum == Lower \cup Upper \cup Digit
Char  == Alnum \cup {"-", "/", ".", "_"}

ASSUME CodecAssumption ==
    /\ {"0", "1", "2", "3"} \subseteq Digit
    /\ \A c, d \in Lower : Capital[c] = Capital[d] => c = d
    /\ Lower \cap Upper = {} /\ (Lower \cup Upper) \cap (Digit \cup {"-", "/", ".", "_"}) = {}
    /\ Digit \cap {"-", "/", ".", "_"} = {}
    /\ "bad escape" \notin Char
    /\ TextChar \subseteq Char
    /\ {MaxNamespaceDepth, MaxSegmentLen, MaxNameLen, MaxIDLen, MaxVaultNameLen, MaxText} \subseteq Nat

VARIABLE text

Invalid == [error |-> TRUE]     \* of parsing and of decoding
TooLong == <<"too long">>       \* of encoding

-----------------------------------------------------------------------------
(* domain/key.go *)

\* strings.Trim(s, "/")
Trim(s) ==
    LET kept == {i \in DOMAIN s : s[i] # "/"}
    IN  IF kept = {} THEN <<>> ELSE SubSeq(s, Sets!Min(kept), Sets!Max(kept))

\* strings.Split(s, "/"): a separator begins a segment, any other character
\* goes on with the last.
SplitOn(segs, c) ==
    IF c = "/" THEN Append(segs, <<>>)
    ELSE [segs EXCEPT ![Len(segs)] = Append(@, c)]

Split(s) ==
    LET upto[i \in 0..Len(s)] ==
            IF i = 0 THEN << <<>> >> ELSE SplitOn(upto[i - 1], s[i])
    IN  upto[Len(s)]

\* Mutant: a segment may end in a hyphen.
SegmentEndsAnyhow(seg) ==
    /\ Len(seg) \in 1..MaxSegmentLen
    /\ Seqs!ToSet(seg) \subseteq Lower \cup Digit \cup {"-"}
    /\ seg[1] # "-"

\* segmentRe and the length
IsSegment(seg) ==
    /\ Len(seg) \in 1..MaxSegmentLen
    /\ Seqs!ToSet(seg) \subseteq Lower \cup Digit \cup {"-"}
    /\ seg[1] # "-" /\ seg[Len(seg)] # "-"

\* nameRe and the length
IsName(name) ==
    /\ Len(name) \in 1..MaxNameLen
    /\ Seqs!ToSet(name) \subseteq Alnum \cup {"_", ".", "-"}
    /\ name[1] \in Alnum

ParseNamespace(s) ==
    LET segs == Split(Trim(s))
    IN  IF /\ Trim(s) # <<>>
           /\ Len(segs) <= MaxNamespaceDepth
           /\ \A n \in DOMAIN segs : IsSegment(segs[n])
        THEN [segments |-> segs]
        ELSE Invalid

ParseKey(s) ==
    LET t  == Trim(s)
        at == {n \in DOMAIN t : t[n] = "/"}
        i  == IF at = {} THEN 0 ELSE Sets!Max(at)
        ns == ParseNamespace(SubSeq(t, 1, i - 1))
        name == SubSeq(t, i + 1, Len(t))
    IN  IF i <= 1 \/ i = Len(t) \/ ns = Invalid \/ ~IsName(name) THEN Invalid
        ELSE [ns |-> ns, name |-> name]

\* strings.Join(segs, "/")
Join(segs) ==
    Tail(Seqs!FlattenSeq([n \in DOMAIN segs |-> <<"/">> \o segs[n]]))

String(k) == Join(k.ns.segments) \o <<"/">> \o k.name

NewKey(ns, name) == ParseKey(Join(ns.segments) \o <<"/">> \o name)

-----------------------------------------------------------------------------
(* The codecs.  '-' and one more character stand for a character the backend *)
(* does not accept, or need not tell from another; a codec is the table of   *)
(* the characters it escapes.                                                *)

\* Mutant: a hyphen is left as it is.
IDCodeKeepsHyphen == [c \in {"/", "."} |-> IF c = "/" THEN "1" ELSE "2"]

\* encodeID: Secret Manager has no '/' and no '.'.
IDCode == [c \in {"-", "/", "."} |-> CASE c = "-" -> "0" [] c = "/" -> "1" [] c = "." -> "2"]

\* r - 'A' + 'a'
ToLower(c) == CHOOSE l \in Lower : Capital[l] = c

\* encodeName: Key Vault has no '_' either, and no capitals of its own.
VaultCode ==
    [c \in Upper \cup {"-", "/", "_", "."} |->
        CASE c = "-" -> "0" [] c = "/" -> "1" [] c = "_" -> "2" [] c = "." -> "3"
          [] OTHER   -> ToLower(c)]

Escape(code, s) ==
    Seqs!FlattenSeq([i \in DOMAIN s |->
        IF s[i] \in DOMAIN code THEN <<"-", code[s[i]]>> ELSE <<s[i]>>])

encode(code, max, k) ==
    LET name == Escape(code, String(k)) IN IF Len(name) <= max THEN name ELSE TooLong

encodeID(k)   == encode(IDCode, MaxIDLen, k)
encodeName(k) == encode(VaultCode, MaxVaultNameLen, k)

Bad == "bad escape"

\* Mutant: a character that is no escape stands for itself.
MeaningLeniently(code, e) ==
    IF \E c \in DOMAIN code : code[c] = e THEN CHOOSE c \in DOMAIN code : code[c] = e ELSE e

\* What e stands for after a '-'; Bad if it is no escape.
Meaning(code, e) ==
    IF \E c \in DOMAIN code : code[c] = e THEN CHOOSE c \in DOMAIN code : code[c] = e ELSE Bad

\* The loop of decodeID and of decodeName, one character on: what they have
\* written to their builder, and whether a '-' has been read that something
\* must follow.  Where they give up, Bad is written.
DecodeOn(code, was, c) ==
    IF was.escaped THEN [out |-> Append(was.out, Meaning(code, c)), escaped |-> FALSE]
    ELSE IF c = "-" THEN [out |-> was.out, escaped |-> TRUE]
    ELSE [out |-> Append(was.out, c), escaped |-> FALSE]

Read(code, s) ==
    LET upto[i \in 0..Len(s)] ==
            IF i = 0 THEN [out |-> <<>>, escaped |-> FALSE] ELSE DecodeOn(code, upto[i - 1], s[i])
    IN  upto[Len(s)]

Unescape(code, s) ==
    LET end == Read(code, s)
    IN  IF end.escaped THEN Append(end.out, Bad) ELSE end.out

decode(code, name) ==
    LET s == Unescape(code, name)
    IN  IF Seqs!Contains(s, Bad) THEN Invalid ELSE ParseKey(s)

decodeID(id)     == decode(IDCode, id)
decodeName(name) == decode(VaultCode, name)

-----------------------------------------------------------------------------
Init == text = <<>>

Next ==
    /\ Len(text) < MaxText
    /\ \E c \in TextChar : text' = Append(text, c)

Spec == Init /\ [][Next]_text

-----------------------------------------------------------------------------
(* The grammar in the comment at the head of key.go, with the limits of the  *)
(* constants there, said of the whole text and without taking it apart.      *)
Grammatical(t) ==
    LET seps == {i \in DOMAIN t : t[i] = "/"}
        last == Sets!Max(seps)
    IN  /\ seps # {} /\ Cardinality(seps) <= MaxNamespaceDepth
        /\ 1 \notin seps /\ Len(t) \notin seps
        /\ \A i \in 1..last - 1 :
              /\ t[i] \in Lower \cup Digit \cup {"-", "/"}
              /\ t[i] = "/" => t[i + 1] # "/"
        /\ \A i \in 1..last - MaxSegmentLen : \E j \in i..i + MaxSegmentLen : t[j] = "/"
        /\ \A i \in last + 1..Len(t) : t[i] \in Alnum \cup {"_", "-", "."}
        /\ Len(t) - last <= MaxNameLen

(* What segmentRe and nameRe ask for besides, and the comment does not: no   *)
(* hyphen at an end of a segment, and a letter or a digit to begin the name. *)
WellEdged(t) ==
    LET last == Sets!Max({i \in DOMAIN t : t[i] = "/"})
    IN  /\ \A i \in 1..last - 1 :
              t[i] = "-" => i > 1 /\ {t[i - 1], t[i + 1]} \cap {"/"} = {}
        /\ t[last + 1] \in Alnum

WellFormed(t) == Grammatical(t) /\ WellEdged(t)

(* Every key has one written form, and it is that of the regular expressions *)
(* (key.go:28-29).  A text of the grammar in the comment (key.go:12-17) is a *)
(* key, written as it was read, exactly if it has that form: "-a/a" and      *)
(* "a/_a" are of the comment's grammar, and of the README's, and are no      *)
(* keys.  Whatever else ParseKey accepts it puts into that form, and reading *)
(* it again, whole or from its parts, gives the same key.  Clients, names in *)
(* the policy and the adapters compare keys by this form (key.go:76-124).    *)
Canonical ==
    LET k == ParseKey(text)
    IN  /\ Grammatical(text) =>
              IF WellEdged(text) THEN k # Invalid /\ String(k) = text ELSE k = Invalid
        /\ k # Invalid =>
              /\ WellFormed(String(k))
              /\ ParseKey(String(k)) = k
              /\ NewKey(k.ns, k.name) = k

(* A key that is not too long for a backend has a name there that decodes to *)
(* it, in characters the backend takes, and for Key Vault in those that have *)
(* no two cases; so no two keys share a name, nor names the vault would take *)
(* for one (gcp/name.go:11, azure/name.go:11).  The length that counts is    *)
(* that of the name, which may be twice that of the key.                     *)
RoundTrip ==
    LET k == ParseKey(text)
        escapes(set) == Cardinality({i \in DOMAIN String(k) : String(k)[i] \in set})
        id   == encodeID(k)
        name == encodeName(k)
    IN  k # Invalid =>
          /\ IF Len(String(k)) + escapes({"-", "/", "."}) > MaxIDLen THEN id = TooLong
             ELSE /\ Seqs!ToSet(id) \subseteq Alnum \cup {"-", "_"}
                  /\ decodeID(id) = k
          /\ IF Len(String(k)) + escapes(Upper \cup {"-", "/", ".", "_"}) > MaxVaultNameLen
             THEN name = TooLong
             ELSE /\ Seqs!ToSet(name) \subseteq Lower \cup Digit \cup {"-"}
                  /\ decodeName(name) = k

(* A name people have given a secret is skipped unless it decodes, and then  *)
(* it is the name vaultlet would have used, but for two things: separators   *)
(* that ParseKey trims, and in Key Vault capitals that are not escaped.  In  *)
(* these two cases a key is listed that Get looks for elsewhere              *)
(* (gcp/name.go:47, azure/name.go:55).                                       *)
Skipped ==
    /\ LET k == decodeID(text)
       IN  (Seqs!ToSet(text) \subseteq Alnum \cup {"-", "_"} /\ k # Invalid) =>
              (text = Escape(IDCode, String(k)) <=> Unescape(IDCode, text) = String(k))
    /\ LET k == decodeName(text)
       IN  (Seqs!ToSet(text) \subseteq Alnum \cup {"-"} /\ k # Invalid) =>
              (text = Escape(VaultCode, String(k))
                 <=> Unescape(VaultCode, text) = String(k) /\ Seqs!ToSet(text) \cap Upper = {})
================================================================================
