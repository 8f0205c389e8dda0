---------------------------- MODULE MCJSSettings ----------------------------
(* An instance of JSSettings: a Web API, its prototype named explicitly, and *)
(* an instance on window that the collection names too; two properties.      *)
EXTENDS JSSettings

CONSTANTS p, q

MCPrototype(name) == "window['XMLHttpRequest'].prototype"
MCWindowNames == {"window.navigator", "window['XMLHttpRequest'].prototype"}
MCCollection == <<Api("window.navigator"), Listed("XMLHttpRequest", <<p>>)>>

MCItems ==
    LET xhr == "XMLHttpRequest"
    IN {Api(xhr), Api("window.navigator"), Api("window['XMLHttpRequest'].prototype"),
        Listed(xhr, <<p>>), Listed(xhr, <<p, q>>),
        Detailed(xhr, "propertiesToInstrument" :> Null),
        Listed("window.navigator", <<q>>), Listed(xhr, <<p, Null>>),
        Detailed(xhr, "excludedProperties" :> <<q>>),
        Detailed(xhr, "excludedProperties" :> Null),
        Detailed(xhr, ("propertiesToInstrument" :> <<q>>) @@ ("depth" :> 3)),
        Detailed(xhr, ("nonExistingPropertiesToInstrument" :> <<p>>) @@ ("depth" :> 3)),
        Detailed(xhr, "dept" :> 3),
        CollectionItem, Invalid}

MCRequests == UNION {[1 .. n -> MCItems] : n \in 0 .. 3}
=============================================================================
