---------------------------- MODULE MCImageNames ----------------------------
(***************************************************************************)
(* Names of a few characters after every kind of scheme, among them the    *)
(* digits of the codes that the escaping writes.                           *)
(***************************************************************************)
EXTENDS ImageNames

SomeStarts ==
    {<<"ostree-unverified-registry", ":">>,
     <<"ostree-unverified-image", ":", "docker", ":", "/", "/">>,
     <<"ostree-unverified-image", ":", "oci", ":">>,
     <<"ostree-image-signed", ":", "docker", ":">>,
     <<"ostree-remote-registry", ":", "r">>,
     <<"ostree-remote-image", ":", "r", ":", "registry", ":">>}
SomeChars == {"3", "A", "/", "-", "_", ":", NUL}
SomeOthers ==
    {<<"ostree-image-signed", ":", "registry", ":", "A">>,
     <<"ostree-unverified-image", ":", "oci", ":", "A", "/", "3">>}
=============================================================================
