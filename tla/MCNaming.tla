------------------------------ MODULE MCNaming ------------------------------
(* An instance of Naming for TLC.                                          *)
EXTENDS Naming, TLC

CONSTANTS g1

MCProc == {g1}
MCWord == {"logs", "a", "a/b", "@x", "long", ".", "profile.md", ".sync.json",
           ".mapping.json", ".fields.json", ".esfs-info", "..", "esfs"}
MCUnsafe == {"a/b"}
MCPrefixed == {"@x"}
MCLong == {<<"long">>}
MCEscLong == {<<"long">>}
MCBadIndex == {<<"a/b">>, <<".sync.json">>, <<".mapping.json">>, <<".fields.json">>}
MCIndex == {<<"logs">>}

(* A plain id, ids that look like names of others, one that is too long,   *)
(* and one that is a virtual file.                                         *)
MCIds == {<<"a">>, <<"@e=", "a">>, <<"long">>, <<"@h=", "long">>, <<"profile.md">>, <<".">>}

(* Other spellings, an encoding that cannot be decoded, the encoded empty  *)
(* id, and a virtual file.                                                 *)
MCTyped == {<<"@e~", "a">>, <<"@e!", "a">>, <<"@e=">>, <<"@e=", "a">>, <<".sync.json">>}
=============================================================================
