------------------------------ MODULE PuttyKey ------------------------------
(***************************************************************************)
(* The loading of a private key file (PuttyKey.c).  A file is the sequence *)
(* of its lines that are not empty: SKIP_LINE_END passes over empty lines  *)
(* and both kinds of line end.  A line is [tag, val]; a line of base64     *)
(* text holds the fields it decodes to, and padded says that it ends with  *)
(* '='.  A field is [name, under]: under is the passphrase it is encrypted *)
(* with, or Plain.  The digests are injective: a MAC is the record of what *)
(* it is computed from.                                                    *)
(***************************************************************************)
EXTENDS Integers, Sequences, SequencesExt, FiniteSetsExt

\* KeyLoadReturns and KeyTypeReturns of PuttyKey.h, by name.
KeyLoadReturns == {"SUCCESS", "FAIL", "FAIL_CORRUPTED", "FAIL_INVALID_ARG",
                   "FAIL_OUT_OF_MEMORY", "FAIL_WRONG_PASSWORD"}
KeyTypeReturns == {"KEY_TYPE_OPEN_SSH", "KEY_TYPE_PUTTY", "KEY_TYPE_ERROR",
                   "KEY_TYPE_UNKNOWN", "KEY_TYPE_ACCESS_DENIED",
                   "SSH_KEYTYPE_UNKNOWN"}

Plain == "plain"        \* not encrypted; also the key of a MAC without one
NoPassword == "none"    \* no passphrase configured: password is NULL
Line(tag, val) == [tag |-> tag, val |-> val]
Text(fields, padded) == Line("data", [fields |-> fields, padded |-> padded])
At(lines, i) == IF i <= Len(lines) THEN lines[i] ELSE Line("end", 0)
Is(lines, i, tag, vals) == At(lines, i).tag = tag /\ At(lines, i).val \in vals

\* The decimal number of a header, in 16 bits.
getNumeric(n) == n % 65536

-----------------------------------------------------------------------------
\* Variant: the last line of a blob is left.
BlobLinesShort(lines, header) == LET n == getNumeric(At(lines, header).val) IN
    SubSeq(lines, header + 1, Min({Len(lines), header + Max({n - 1, 1})}))
\* The lines of a blob: the first one is always taken, the others as the
\* header counted them, none of them beyond the end of the file.
BlobLines(lines, header) == LET n == getNumeric(At(lines, header).val) IN
    SubSeq(lines, header + 1, Min({Len(lines), header + Max({n, 1})}))

AfterBlob(lines, header) ==
    header + 1 + Max({getNumeric(At(lines, header).val), 1})

\* The joined lines are base64: nothing but the last quad is padded.
Decodes(text) ==
    /\ text # <<>>
    /\ \A i \in DOMAIN text :
          text[i].tag = "data" /\ (text[i].val.padded => i = Len(text))

Base64ToData(text) == FlattenSeq([i \in DOMAIN text |-> text[i].val.fields])

\* Decryption with the key made of the passphrase.
Decrypted(blob, password) ==
    [i \in DOMAIN blob |->
        [name |-> IF blob[i].under = password THEN blob[i].name ELSE "noise",
         under |-> Plain]]

\* Variant: the digest of format 2 covers the private numbers only as well.
MacOfPrivate(kind, format, names, public, private, password) ==
    [kind |-> kind,
     key |-> IF kind = "MAC" /\ names[2] # "none" THEN password ELSE Plain,
     head |-> <<>>, public |-> <<>>, private |-> private]
\* What the MAC or the digest is computed from, names being the type, the
\* encryption and the comment: in format 1 the private blob alone.
MacOf(kind, format, names, public, private, password) ==
    [kind |-> kind,
     key |-> IF kind = "MAC" /\ names[2] # "none" THEN password ELSE Plain,
     head |-> IF format = 2 THEN names ELSE <<>>,
     public |-> IF format = 2 THEN public ELSE <<>>,
     private |-> private]

PublicNumbers(type) ==
    IF type = "ssh-dss" THEN <<"p", "q", "g", "y">> ELSE <<"e", "n">>
PrivateNumbers(type) ==
    IF type = "ssh-dss" THEN <<"x">> ELSE <<"d", "p", "q", "iqmp">>

\* The numbers of a key, each read where the one before it ends.
LoadBignums(blob, from, count) == SubSeq(blob, from, from + count - 1)

NoKey == [type |-> "none", public |-> <<>>, private |-> <<>>]
Outcome(code) == [code |-> code, key |-> NoKey]

\* PuttyKeyParseData: the checks in the order of the code, the first one
\* that fails decides.  looksPadded: the last decrypted block happens to end
\* like a padded one, and EVP_DecryptFinal succeeds.
PuttyKeyParseData(lines, password, looksPadded) ==
    LET format     == lines[1].val.format
        type       == lines[1].val.type
        encryption == lines[2].val
        encrypted  == encryption = "aes256-cbc"
        mac        == AfterBlob(lines, AfterBlob(lines, 4))
        public     == Base64ToData(BlobLines(lines, 4))
        stored     == Base64ToData(BlobLines(lines, AfterBlob(lines, 4)))
        private    == IF encrypted THEN Decrypted(stored, password) ELSE stored
        pubNeed    == Len(PublicNumbers(type))
        privNeed   == Len(PrivateNumbers(type))
        Headed     == /\ Is(lines, 2, "encryption", {"none", "aes256-cbc"})
        Readable   ==
            /\ At(lines, 4).tag = "public" /\ getNumeric(At(lines, 4).val) >= 1
            /\ Decodes(BlobLines(lines, 4))
            /\ At(lines, AfterBlob(lines, 4)).tag = "private"
            /\ Decodes(BlobLines(lines, AfterBlob(lines, 4)))
            /\ \/ At(lines, mac).tag = "MAC"
               \/ At(lines, mac).tag = "Hash" /\ format # 2
            /\ At(lines, mac).val.whole
            /\ public # <<>> /\ stored # <<>>
        Genuine    ==
            At(lines, mac).val.of = MacOf(At(lines, mac).tag, format,
                <<type, encryption, At(lines, 3).val>>,
                public, private, password)
        Complete   == Len(private) >= privNeed /\ Len(public) >= pubNeed + 1
    IN  IF ~(At(lines, 1).tag = "format" /\ format \in {1, 2}
             /\ type \in {"ssh-dss", "ssh-rsa"} /\ Headed)
        THEN Outcome("FAIL_CORRUPTED")
        ELSE IF At(lines, 3).tag # "comment" THEN Outcome("FAIL")
        ELSE IF ~Readable THEN Outcome("FAIL_CORRUPTED")
        ELSE IF encrypted /\ password = NoPassword
        THEN Outcome("FAIL_INVALID_ARG")
        ELSE IF encrypted /\ looksPadded THEN Outcome("FAIL_CORRUPTED")
        ELSE IF ~Genuine
        THEN Outcome(IF encrypted THEN "FAIL_WRONG_PASSWORD"
                                  ELSE "FAIL_CORRUPTED")
        ELSE IF ~Complete THEN Outcome("FAIL_CORRUPTED")
        ELSE [code |-> "SUCCESS",
              key |-> [type |-> type,
                       public |-> LoadBignums(public, 2, pubNeed),
                       private |-> LoadBignums(private, 1, privNeed)]]

\* PuttyKeyLoadPrivate: the size, the content and its parse; whole is what
\* stat, open and read made of the file.
PuttyKeyLoadPrivate(file, whole) ==
    IF ~whole THEN Outcome("FAIL")
    ELSE PuttyKeyParseData(file.lines, file.password, file.looksPadded)

\* PuttyKeyDetectType, by how the file opens and what its first 32 bytes are.
PuttyKeyDetectType(file) ==
    CASE file.opens = "EACCES" -> "KEY_TYPE_ACCESS_DENIED"
      [] file.opens \in {"ENOENT", "other"} -> "KEY_TYPE_ERROR"
      [] file.opens = "short" -> "KEY_TYPE_UNKNOWN"
      [] file.opens = "openssh" -> "KEY_TYPE_OPEN_SSH"
      [] file.opens = "read" ->
            IF At(file.lines, 1).tag = "format"
               /\ file.lines[1].val.format \in {1, 2}
            THEN "KEY_TYPE_PUTTY" ELSE "SSH_KEYTYPE_UNKNOWN"

-----------------------------------------------------------------------------
(* The files: what PuTTYgen writes, and one piece of damage to it.         *)

Fields(names, under) ==
    [i \in DOMAIN names |-> [name |-> names[i], under |-> under]]

\* A blob takes one line when it has one field and two when it has more.
InLines(fields) ==
    IF Len(fields) = 1 THEN <<Text(fields, TRUE)>>
    ELSE <<Text(SubSeq(fields, 1, 1), FALSE),
           Text(SubSeq(fields, 2, Len(fields)), TRUE)>>

\* What is written: kind is "MAC" or, in format 1 only, "Hash".
Writings == {w \in [format : {1, 2}, type : {"ssh-rsa", "ssh-dss"},
                    password : {Plain, "secret"}, kind : {"MAC", "Hash"}] :
                w.format = 2 => w.kind = "MAC"}

PublicBlob(w) == Fields(<<"type">> \o PublicNumbers(w.type), Plain)
PrivateBlob(w) == Fields(PrivateNumbers(w.type), Plain)

Written(w) ==
    LET encryption == IF w.password = Plain THEN "none" ELSE "aes256-cbc"
        public  == InLines(PublicBlob(w))
        private == InLines(Fields(PrivateNumbers(w.type), w.password))
    IN  <<Line("format", [format |-> w.format, type |-> w.type]),
          Line("encryption", encryption), Line("comment", "comment"),
          Line("public", Len(public))>> \o public
        \o <<Line("private", Len(private))>> \o private
        \o <<Line(w.kind, [whole |-> TRUE,
                of |-> MacOf(w.kind, w.format, <<w.type, encryption, "comment">>,
                             PublicBlob(w), PrivateBlob(w), w.password)])>>

\* Every line a header of the file may have become.
Retouched(line) ==
    CASE line.tag = "format" ->
            {Line("format", [format |-> f, type |-> t]) :
                f \in 1..3, t \in {"ssh-rsa", "ssh-dss", "ssh-ed25519"}}
      [] line.tag = "encryption" ->
            {Line("encryption", e) : e \in {"none", "aes256-cbc", "other"}}
      [] line.tag = "comment" -> {Line("comment", "edited")}
      [] line.tag \in {"public", "private"} ->
            {Line(line.tag, n) : n \in 0..(line.val + 2) \cup {65536, 65538}}
      [] line.tag = "data" ->
            {Text([line.val.fields EXCEPT ![1].name = "edited"],
                  line.val.padded)}
      [] line.tag \in {"MAC", "Hash"} ->
            {[line EXCEPT !.val.whole = FALSE], [line EXCEPT !.tag = "MAC"],
             [line EXCEPT !.tag = "Hash"]}

Damaged(lines) ==
    UNION {{RemoveAt(lines, i), InsertAt(lines, i, lines[i]),
            SubSeq(lines, 1, i)} : i \in DOMAIN lines}
    \cup {[lines EXCEPT ![i] = lines[i + 1], ![i + 1] = lines[i]] :
            i \in 1..(Len(lines) - 1)}
    \cup UNION {{ReplaceAt(lines, i, l) : l \in Retouched(lines[i])} :
            i \in DOMAIN lines}

KeyFiles ==
    {[opens |-> "read", lines |-> l[2], of |-> l[1], password |-> p,
      looksPadded |-> b] :
        l \in UNION {{<<w, m>> : m \in Damaged(Written(w)) \cup {Written(w)}} :
                        w \in Writings},
        p \in {NoPassword, "secret", "wrong"}, b \in BOOLEAN}
    \cup {[opens |-> o, lines |-> <<>>, of |-> CHOOSE w \in Writings : TRUE,
           password |-> "secret", looksPadded |-> FALSE] :
            o \in {"ENOENT", "EACCES", "other", "short", "openssh"}}
=============================================================================
