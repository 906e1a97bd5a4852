---------------------------- MODULE MCOsvLookup ----------------------------
(* Two hosts of one release, d12: a library with its source and the kernel,  *)
(* and on the second host the library alone.  OSV also knows d13; one        *)
(* advisory is the library's, the other the library's or the kernel's.       *)
EXTENDS OsvLookup
CONSTANTS h1, h2, deb, d12, d13, lib, libsrc, linux, v1, v2
MCEcoOf == [h \in Hosts |-> deb]
MCInstalled == [h \in Hosts |-> IF h = h1 THEN {lib, linux} ELSE {lib}]
MCNamesOf == [p \in Packages |-> IF p = lib THEN {lib, libsrc} ELSE {p}]
MCReleasesOf == [e \in Ecos |-> {d12}]
MCWide == [e \in Ecos |-> {d12, d13}]
MCFamily == [r \in Releases |-> deb]
MCDatabases ==
  {db \in [Vulns -> Record] :
     /\ db[v1].name \in {lib, libsrc} /\ db[v2].name \in {lib, linux}
     /\ \A v \in Vulns : db[v].block[d13] # "fixed"}
============================================================================
