------------------------------- MODULE MCCrud -------------------------------
(***************************************************************************)
(* Small instances of CrudOps, and of the objects of Entities, for TLC.    *)
(***************************************************************************)
EXTENDS CrudProperties, EntityProperties, TLC

Symmetry == Permutations(Callers)

\* Records with every field set, with none, and with those only that entities know.
Some(known, all, value) ==
  {[f \in all |-> value], [f \in all |-> Nil], [f \in all |-> IF f \in known THEN value ELSE Nil]}

MCMetas == Some(MetadataFields, ObjectMetaFields, "t")
MCPorts ==
  {[p EXCEPT !["targetPort"] = target] :
     p \in Some(PortFields, ServicePortFields, "t"), target \in {"0", "80", "t"}}
MCKeystores == Some(KeystoreFields, KeystoreFields \cup {"profile"}, "t") \cup {Nil}

MCObjects ==
  [kind : {"Secret"}, meta : MCMetas, data : {"t", Nil}, type : {"t"}, immutable : {"t", Nil}]
  \cup [kind : {"ConfigMap"}, meta : MCMetas, data : {"t", Nil}, binaryData : {"t", Nil}]
  \cup [kind : {"Service"}, meta : MCMetas, spec : Some(ServiceFields, ServiceSpecFields, "t"),
        ports : {<<>>} \cup {<<p, q>> : p, q \in MCPorts}]
  \cup [kind : {"Certificate"}, meta : MCMetas,
        spec : [fields : Some(CertificateFields, CertificateSpecFields, "t"),
                issuerRef : Some({"name"}, IssuerFields, "t"),
                usages : {Nil, <<>>, <<"t", "u">>},
                privateKey : Some({"size"}, PrivateKeyFields, "t") \cup {Nil},
                keystores : [{"jks", "pkcs12"} -> MCKeystores] \cup {Nil},
                secretTemplate : {[f \in TemplateFields |-> "t"], Nil}],
        status : [fields : {[f \in StatusFields |-> "t"]}, conditions : {Nil, <<"t">>}]]

\* Either the calls of CrudOps, or one object of Entities: they share nothing.
MCInit == Init /\ NoObject
MCNext ==
  \/ object = Nil /\ Next /\ UNCHANGED entityVars
  \/ callsLeft = MaxCalls /\ clock = 0 /\ EntityNext /\ UNCHANGED vars

MCSpec == MCInit /\ [][MCNext]_<<vars, entityVars>>
=============================================================================
