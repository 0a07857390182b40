------------------------ MODULE MCCapabilityManifest ------------------------
(* Small manifests for CapabilityManifest, beside the one it ships.         *)
EXTENDS CapabilityManifest

\* Every way to spell one route, another route, and a path outside the API.
MCPaths == {<<"v2", "droplets">>, <<"v2", "", "droplets">>, <<"v2", "droplets", "">>,
            <<"v2">>, <<"v1", "droplets">>}

\* Entries of two capabilities at every path, of every capability at one, of
\* each capability with the runtime of each, and two that are not documented.
Get(path, capability) == Operation("get", "GET", path, capability)
Seeds == {Get(path, c) : path \in MCPaths, c \in {"scriptable", "unsupported"}}
         \cup {Operation("post", "POST", <<"v2", "droplets">>, c) : c \in Capabilities}
Misfits == {[Get(<<"v2">>, c) EXCEPT !.runtime = Runtime(d)] :
                c \in Capabilities, d \in Capabilities}
Hidden == {[Get(<<"v2">>, c) EXCEPT !.exposeInDocs = FALSE] :
              c \in {"scriptable", "unsupported"}}

MCManifests ==
    {V1Manifest, <<>>}
    \cup {<<e>> : e \in Misfits \cup Hidden}
    \cup {<<e, f>> : e \in Seeds, f \in Seeds \cup Hidden}

\* Valid, valid but all hidden, and invalid by a repeated route.
MCDrafts ==
    {<<Get(<<"v2">>, "scriptable")>>,
     <<[Get(<<"v2">>, "scriptable") EXCEPT !.exposeInDocs = FALSE]>>,
     <<Get(<<"v2">>, "scriptable"), Get(<<"v2", "">>, "unsupported")>>}
=============================================================================
