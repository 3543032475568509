----------------------------- MODULE AppConfig -----------------------------
(***************************************************************************)
(* What the AMF makes of its configuration file (config/mod.rs), the       *)
(* application context built from it (context/app_context.rs), the profile *)
(* it registers (builder/sbi/nrf.rs) and the requests that carry it        *)
(* (utils/client/src/lib.rs).                                              *)
(*                                                                         *)
(* An IP address is its family, "v4" or "v6"; a host name is anything else *)
(* and is looked up in dns.  Lists keep their length and order.            *)
(***************************************************************************)
EXTENDS Conversions

Families == {"v4", "v6"}

\* What a configuration file may say where addresses are among hosts.
ConfigFile(hosts) ==
    [ngap_ip_list : Seq(hosts),
     register_ip : hosts,
     binding_ip : hosts,
     served_guami_list : Seq([plmn_id : Plmns, amf_id : AmfIds]) \ {<<>>},
     support_tai_list : Seq(Tais),
     plmn_support_list : Seq([plmn_id : Plmns, snssai_list : Seq(Snssais) \ {<<>>}]) \ {<<>>},
     support_dnn_list : Seq(STRING),
     service_name_list : Seq(STRING),
     nrf_uri : {"url", "relative"}]

\* An address parses as itself; a host name is its first DNS answer.
ResolveIpOrHostname(dns, s) == IF s \in Families THEN s ELSE dns[s]

\* The list is refused as a whole when one of its members cannot be resolved.
DeserializeIpList(dns, list) ==
    LET ips == [i \in DOMAIN list |-> ResolveIpOrHostname(dns, list[i])]
    IN  IF \E i \in DOMAIN ips : ips[i] = None THEN None ELSE ips

\* serde_yaml on the file's contents: every address must resolve.
ParseConfig(dns, file) ==
    LET c == [file EXCEPT !.ngap_ip_list = DeserializeIpList(dns, @),
                          !.register_ip = ResolveIpOrHostname(dns, @),
                          !.binding_ip = ResolveIpOrHostname(dns, @)]
    IN  IF c.ngap_ip_list = None \/ c.register_ip = None \/ c.binding_ip = None
        THEN None
        ELSE c

-----------------------------------------------------------------------------
(* Validation                                                              *)

AmfServices == {"namf-comm", "namf-evts", "namf-mt", "namf-loc"}

\* Mutant: the service names are not looked at.
AnyList(list) == TRUE

EnumList(list) == \A i \in DOMAIN list : list[i] \in AmfServices

ValidConfiguration(c) == Len(c.support_tai_list) >= 1 /\ Len(c.support_dnn_list) >= 1

ValidSbi(c) == Len(c.service_name_list) >= 1 /\ EnumList(c.service_name_list)

\* SerdeValidated::new accepts c.
Validated(c) == ValidConfiguration(c) /\ ValidSbi(c)

-----------------------------------------------------------------------------
(* The application context and the profile                                 *)

\* One service per configured name, numbered by its place in the list.
BuildNfServices(c) ==
    [i \in DOMAIN c.service_name_list |->
        [service_instance_id |-> i - 1,
         service_name |-> c.service_name_list[i],
         ip_end_point |-> c.register_ip]]

\* AppContext::initialize; nf_id is the fresh UUID.
NewContext(c, nf_id) ==
    [nf_id |-> nf_id,
     register_ip |-> c.register_ip,
     served_guami_list |-> c.served_guami_list,
     support_tai_list |-> c.support_tai_list,
     plmn_support_list |-> c.plmn_support_list,
     nf_services |-> BuildNfServices(c)]

\* The AMF region and set are those of the first GUAMI.
BuildNfProfile(app) ==
    [nf_instance_id |-> app.nf_id,
     amf_region |-> app.served_guami_list[1].amf_id.region,
     amf_set |-> app.served_guami_list[1].amf_id.set,
     guami_list |-> app.served_guami_list,
     tai_list |-> app.support_tai_list,
     plmn_list |-> [i \in DOMAIN app.plmn_support_list |-> app.plmn_support_list[i].plmn_id],
     addresses |-> {app.register_ip},
     nf_services |-> app.nf_services]

\* commit_config with the update that register_nf passes.
CommitNfId(app, nf_id) == [app EXCEPT !.nf_id = nf_id]

-----------------------------------------------------------------------------
(* Requests                                                                *)

\* The body by what it says and how it is written; None for no body.
SerializeBody(content, encoding) == [content |-> content, encoding |-> encoding]

\* op and id are the method and path; no request has an Authorization yet.
PrepareRequest(op, id, content, encoding) ==
    [op |-> op, id |-> id, content_type |-> encoding, authorization |-> None,
     body |-> SerializeBody(content, encoding)]

\* set_auth_token: the Bearer token, named by the NF it was issued to.
SetAuthToken(request, token) == [request EXCEPT !.authorization = token]
=============================================================================
