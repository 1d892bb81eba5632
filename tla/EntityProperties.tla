--------------------------- MODULE EntityProperties ---------------------------
(***************************************************************************)
(* What the conversions of Entities keep.                                  *)
(***************************************************************************)
EXTENDS Entities

\* Nobody has set a field that the entity does not know.
Plain(r, known) == \A f \in DOMAIN r \ known : r[f] = Nil

PlainSecret(o) == o.kind = "Secret" => o.immutable = Nil
PlainConfigMap(o) == o.kind = "ConfigMap" => o.binaryData = Nil
PlainService(o) ==
  o.kind = "Service" =>
    /\ Plain(o.spec, ServiceFields)
    /\ \A i \in DOMAIN o.ports :
         Plain(o.ports[i], PortFields) /\ o.ports[i]["targetPort"] \in Numbers
PlainCertificate(o) ==
  o.kind = "Certificate" =>
    /\ Plain(o.spec.fields, CertificateFields)
    /\ o.spec.usages # <<>> /\ o.status.conditions # <<>>
    /\ o.spec.keystores # Nil =>
         \A k \in {"jks", "pkcs12"} :
           o.spec.keystores[k] # Nil => Plain(o.spec.keystores[k], KeystoreFields)

PlainObject(o) ==
  /\ Plain(o.meta, MetadataFields)
  /\ PlainSecret(o) /\ PlainConfigMap(o) /\ PlainService(o) /\ PlainCertificate(o)

\* Who writes back what was read drops nothing, as long as nobody has set a field
\* that the entity has no place for, and target ports are numbers
\* (entity/certificate.go 85-336, service.go 28-60, secret.go 13-37,
\* configmap.go 12-23, metadata.go 27-56).
WriteBackKeeps == written # Nil /\ PlainObject(object) => written = object
=============================================================================
