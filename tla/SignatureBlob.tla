--------------------------- MODULE SignatureBlob ----------------------------
(***************************************************************************)
(* The blobs of the agent's signatures (SshAgent.c), as the writes that    *)
(* fill them in the order of the code: [at, size, what], offset and size   *)
(* in bytes.  A reader takes the fields one behind the other:              *)
(*   blobLength[ typeLength[ type ] signatureLength[ signature ] ]         *)
(***************************************************************************)
EXTENDS Integers, Sequences

Algorithms == {"ssh-dss", "ssh-rsa", "rsa-sha2-256", "rsa-sha2-512",
               "ecdsa-sha2-nistp256", "ecdsa-sha2-nistp384",
               "ecdsa-sha2-nistp521", "ssh-ed25519"}
Ecdsa == {"ecdsa-sha2-nistp256", "ecdsa-sha2-nistp384", "ecdsa-sha2-nistp521"}
RsaSha2 == {"rsa-sha2-256", "rsa-sha2-512"}

\* The length of the name of the algorithm.
TypeLength(algorithm) ==
    CASE algorithm \in {"ssh-dss", "ssh-rsa"} -> 7
      [] algorithm \in RsaSha2 -> 12
      [] algorithm \in Ecdsa -> 19
      [] algorithm = "ssh-ed25519" -> 11

Write(at, size, what) == [at |-> at, size |-> size, what |-> what]

\* The functions that write at a running index, but for the length of the
\* signature, which all of them put at offset 15.
IndexedWrites(algorithm, n) ==
    <<Write(0, 4, "blobLength"), Write(4, 4, "typeLength"),
      Write(8, TypeLength(algorithm), "type"),
      Write(15, 4, "signatureLength"),
      Write(12 + TypeLength(algorithm), n, "signature")>>

\* Variant: the length where the others put it.
Ed25519WritesAsOthers(n) ==
    <<Write(23, n, "signature"), Write(0, 4, "blobLength"),
      Write(4, 4, "typeLength"), Write(8, 11, "type"),
      Write(15, 4, "signatureLength")>>
\* Ed25519 signs in place first and knows the lengths after that.
Ed25519Writes(n) ==
    <<Write(23, n, "signature"), Write(0, 4, "blobLength"),
      Write(4, 4, "typeLength"), Write(8, 11, "type"),
      Write(19, 4, "signatureLength")>>

SignatureWrites(algorithm, n) ==
    IF algorithm = "ssh-ed25519" THEN Ed25519Writes(n)
    ELSE IndexedWrites(algorithm, n)

\* What malloc gave for it.
BlobSize(algorithm, n) == 12 + TypeLength(algorithm) + n

-----------------------------------------------------------------------------
Field(algorithm, n) ==
    LET t == TypeLength(algorithm)
    IN  {Write(0, 4, "blobLength"), Write(4, 4, "typeLength"),
         Write(8, t, "type"), Write(8 + t, 4, "signatureLength"),
         Write(12 + t, n, "signature")}

Apart(w, v) == w.at + w.size <= v.at \/ v.at + v.size <= w.at

\* Each field has been written where a reader looks for it, nothing else was
\* written over it, and no write goes past the end of the buffer.
Readable(writes, algorithm, n) ==
    /\ \A f \in Field(algorithm, n) : \E i \in DOMAIN writes :
          /\ writes[i] = f
          /\ \A j \in DOMAIN writes : j > i => Apart(writes[j], f)
    /\ \A i \in DOMAIN writes :
          writes[i].at + writes[i].size <= BlobSize(algorithm, n)
=============================================================================
