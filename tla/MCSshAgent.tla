----------------------------- MODULE MCSshAgent -----------------------------
EXTENDS SshAgent
(* Two passphrases of which one begins the other.                          *)
MCPassphrase == {<<"p">>, <<"p", "q">>}

(* Once programs have mixed no third request is followed, and one type of  *)
(* key is enough.                                                          *)
MixedShort ==
    channel.orderly \/ (channel.left > 0 /\ login.keyType = "ssh-rsa")
=============================================================================
