------------------------------- MODULE Entities -------------------------------
(***************************************************************************)
(* The entities of certificates, services, secrets and config maps, and    *)
(* their conversions from and to the objects of the API server             *)
(* (src/entity).  A caller reads an entity, changes it and writes it back, *)
(* and an update replaces the whole object: what the conversions drop on   *)
(* the way is gone.                                                        *)
(*                                                                         *)
(* Records are functions on the names of their fields.  A pointer, slice   *)
(* or map that is nil is Nil; fields of the objects that the entities have *)
(* no place for are there by the name of one of them.                      *)
(***************************************************************************)
EXTENDS Sequences

CONSTANTS
  Texts, Numbers, Zero, Nil,   \* values of fields
  Objects                      \* objects of the API server

\* To an entity only its fields come along, and none but these go back.
Copy(record, fields) == [f \in fields |-> record[f]]
Fill(record, fields, all) == [f \in all |-> IF f \in fields THEN record[f] ELSE Nil]
MaybeCopy(record, fields) == IF record = Nil THEN Nil ELSE Copy(record, fields)
MaybeFill(record, fields, all) == IF record = Nil THEN Nil ELSE Fill(record, fields, all)

\* What is appended to a nil slice, element by element.
Appended(s) == IF s = <<>> THEN Nil ELSE s

(***************************************************************************)
(* Metadata, secrets, config maps.                                         *)
(***************************************************************************)
MetadataFields ==
  {"name", "namespace", "uid", "generation", "resourceVersion", "annotations", "labels"}
ObjectMetaFields == MetadataFields \cup {"ownerReferences"}

FromObjectMeta(meta) == Copy(meta, MetadataFields)
ToObjectMeta(meta) == Fill(meta, MetadataFields, ObjectMetaFields)

NewSecret(o) ==
  [kind |-> "Secret", meta |-> FromObjectMeta(o.meta), data |-> o.data, type |-> o.type]
ToSecret(e) ==
  [kind |-> "Secret", meta |-> ToObjectMeta(e.meta), data |-> e.data, type |-> e.type, immutable |-> Nil]

NewConfigMap(o) ==
  [kind |-> "ConfigMap", meta |-> FromObjectMeta(o.meta), data |-> o.data]
ToConfigMap(e) ==
  [kind |-> "ConfigMap", meta |-> ToObjectMeta(e.meta), data |-> e.data, binaryData |-> Nil]

(***************************************************************************)
(* Services.  A target port is a number or the name of a container's port; *)
(* no ports are an empty sequence.                                         *)
(***************************************************************************)
PortFields == {"name", "protocol", "port", "nodePort", "targetPort"}
ServicePortFields == PortFields \cup {"appProtocol"}
ServiceFields == {"clusterIP", "selector", "type"}
ServiceSpecFields == ServiceFields \cup {"sessionAffinity"}

IntVal(port) == IF port \in Numbers THEN port ELSE Zero

NewPort(p) == [Copy(p, PortFields) EXCEPT !["targetPort"] = IntVal(p["targetPort"])]
ToServicePort(p) == Fill(p, PortFields, ServicePortFields)

NewService(o) ==
  [kind |-> "Service", meta |-> FromObjectMeta(o.meta), spec |-> Copy(o.spec, ServiceFields),
   ports |-> [i \in DOMAIN o.ports |-> NewPort(o.ports[i])]]
ToService(e) ==
  [kind |-> "Service", meta |-> ToObjectMeta(e.meta), spec |-> Fill(e.spec, ServiceFields, ServiceSpecFields),
   ports |-> [i \in DOMAIN e.ports |-> ToServicePort(e.ports[i])]]

(***************************************************************************)
(* Certificates.                                                           *)
(***************************************************************************)
IssuerFields == {"name", "kind", "group"}
PrivateKeyFields == {"rotationPolicy", "encoding", "algorithm", "size"}
KeystoreFields == {"create", "name", "key"}
TemplateFields == {"annotations", "labels"}
CertificateFields ==
  {"secretName", "commonName", "dnsNames", "ipAddresses", "isCA", "duration", "renewBefore"}
CertificateSpecFields == CertificateFields \cup {"subject"}
StatusFields ==
  {"revision", "nextPrivateKeySecretName", "failedIssuanceAttempts", "lastFailureTime",
   "notBefore", "renewalTime", "notAfter"}

\* Mutant: one keystore is read twice.
OneKeystoreMutant(ck) ==
  IF ck = Nil THEN Nil
  ELSE [k \in {"jks", "pkcs12"} |-> MaybeCopy(ck["jks"], KeystoreFields)]

NewCertificateKeystores(ck) ==
  IF ck = Nil THEN Nil
  ELSE [k \in {"jks", "pkcs12"} |-> MaybeCopy(ck[k], KeystoreFields)]

ToCertificateKeystores(ck) ==
  IF ck = Nil THEN Nil
  ELSE [k \in {"jks", "pkcs12"} |->
          MaybeFill(ck[k], KeystoreFields, KeystoreFields \cup {"profile"})]

NewCertificateSpec(cs) ==
  [fields |-> Copy(cs.fields, CertificateFields),
   issuerRef |-> Copy(cs.issuerRef, IssuerFields),
   usages |-> Appended(cs.usages),
   privateKey |-> MaybeCopy(cs.privateKey, PrivateKeyFields),
   keystores |-> NewCertificateKeystores(cs.keystores),
   secretTemplate |-> MaybeCopy(cs.secretTemplate, TemplateFields)]

ToCertificateSpec(cs) ==
  [fields |-> Fill(cs.fields, CertificateFields, CertificateSpecFields),
   issuerRef |-> Copy(cs.issuerRef, IssuerFields),
   usages |-> Appended(cs.usages),
   privateKey |-> MaybeCopy(cs.privateKey, PrivateKeyFields),
   keystores |-> ToCertificateKeystores(cs.keystores),
   secretTemplate |-> MaybeCopy(cs.secretTemplate, TemplateFields)]

NewCertificateStatus(cs) ==
  [fields |-> Copy(cs.fields, StatusFields), conditions |-> Appended(cs.conditions)]
ToCertificateStatus(cs) ==
  [fields |-> Copy(cs.fields, StatusFields), conditions |-> Appended(cs.conditions)]

NewCertificate(o) ==
  [kind |-> "Certificate", meta |-> FromObjectMeta(o.meta), spec |-> NewCertificateSpec(o.spec),
   status |-> NewCertificateStatus(o.status)]
ToCertificate(e) ==
  [kind |-> "Certificate", meta |-> ToObjectMeta(e.meta), spec |-> ToCertificateSpec(e.spec),
   status |-> ToCertificateStatus(e.status)]

(***************************************************************************)
(* The objects.                                                            *)
(***************************************************************************)
Fields == Texts \cup Numbers \cup {Nil}
Slices == Seq(Texts) \cup {Nil}
ObjectMetas == [ObjectMetaFields -> Fields]
KeystoreEntities == [KeystoreFields -> Fields] \cup {Nil}
Keystores == [KeystoreFields \cup {"profile"} -> Fields] \cup {Nil}

SecretObjects ==
  [kind : {"Secret"}, meta : ObjectMetas, data : Fields, type : Fields, immutable : Fields]
ConfigMapObjects == [kind : {"ConfigMap"}, meta : ObjectMetas, data : Fields, binaryData : Fields]
ServiceObjects ==
  [kind : {"Service"}, meta : ObjectMetas, spec : [ServiceSpecFields -> Fields],
   ports : Seq([ServicePortFields -> Fields])]
CertificateObjects ==
  [kind : {"Certificate"}, meta : ObjectMetas,
   spec : [fields : [CertificateSpecFields -> Fields], issuerRef : [IssuerFields -> Fields],
           usages : Slices, privateKey : [PrivateKeyFields -> Fields] \cup {Nil},
           keystores : [{"jks", "pkcs12"} -> Keystores] \cup {Nil},
           secretTemplate : [TemplateFields -> Fields] \cup {Nil}],
   status : [fields : [StatusFields -> Fields], conditions : Slices]]

\* Nil is no pointer that is set.
ASSUME EntitiesAssumption ==
  /\ Zero \in Numbers
  /\ \A o \in Objects :
       \/ o \in SecretObjects \/ o \in ConfigMapObjects
       \/ o \in ServiceObjects \/ o \in CertificateObjects
  /\ Nil \notin Objects
  /\ Nil \notin [KeystoreFields \cup {"profile"} -> Fields]
  /\ Nil \notin [KeystoreFields -> Fields]
  /\ Nil \notin [PrivateKeyFields -> Fields] /\ Nil \notin [TemplateFields -> Fields]
  /\ Nil \notin [{"jks", "pkcs12"} -> Keystores]
  /\ Nil \notin [{"jks", "pkcs12"} -> KeystoreEntities]

(***************************************************************************)
(* An object is read, and what was read is written.                        *)
(***************************************************************************)
VARIABLES object, entity, written

entityVars == <<object, entity, written>>

NoObject == object = Nil /\ entity = Nil /\ written = Nil

Stored == object = Nil /\ object' \in Objects /\ UNCHANGED <<entity, written>>

ReadEntity ==
  /\ object # Nil /\ entity = Nil /\ written = Nil
  /\ entity' = CASE object.kind = "Secret" -> NewSecret(object)
                 [] object.kind = "ConfigMap" -> NewConfigMap(object)
                 [] object.kind = "Service" -> NewService(object)
                 [] object.kind = "Certificate" -> NewCertificate(object)
  /\ UNCHANGED <<object, written>>

WriteEntity ==
  /\ entity # Nil /\ entity' = Nil
  /\ written' = CASE entity.kind = "Secret" -> ToSecret(entity)
                  [] entity.kind = "ConfigMap" -> ToConfigMap(entity)
                  [] entity.kind = "Service" -> ToService(entity)
                  [] entity.kind = "Certificate" -> ToCertificate(entity)
  /\ UNCHANGED object

EntityNext == Stored \/ ReadEntity \/ WriteEntity

EntitySpec == NoObject /\ [][EntityNext]_entityVars
=============================================================================
