-------------------------------- MODULE MCVfs --------------------------------
(* Paths of a slash and up to four more characters, for TLC. *)
EXTENDS Vfs

MCChars == {"/", "a", "b"}

MCPaths == {<<"/">> \o s : s \in UNION {[1 .. n -> MCChars] : n \in 0 .. 4}}

MCMountPaths == {<<"/">>, <<"/", "a", "/">>, <<"/", "a", "/", "b", "/">>}

MCDeviceNames == {<<"a">>, <<"b", "a">>}

=============================================================================
