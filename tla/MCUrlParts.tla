------------------------------ MODULE MCUrlParts ------------------------------
(***************************************************************************)
(* The URLs of the comment in lines 37-42 of http_client.cpp, each part of *)
(* one character: host/file, host/dir/file and host:port/dir/file.         *)
(***************************************************************************)
EXTENDS UrlParts

MCUrls == {<<"h", "/", "f">>, <<"h", "/", "d", "/", "f">>,
           <<"h", ":", "p", "/", "d", "/", "f">>}
=============================================================================
