---------------------------- MODULE MCNfService ----------------------------
(* Configuration files and NG Setup requests for NfService: two good files *)
(* and one per way in which a file can be wrong.                           *)
EXTENDS NfService

P20893 == [mcc |-> <<2, 0, 8>>, mnc |-> <<9, 3>>]
P001010 == [mcc |-> <<0, 0, 1>>, mnc |-> <<0, 1, 0>>]

\* 00000a, 00000A and 0a0000.
TacLower == <<0, 0, 0, 0, 0, 10>>
TacUpper == <<0, 0, 0, 0, 0, 26>>
TacPrivate == <<0, 10, 0, 0, 0, 0>>

Good ==
    [ngap_ip_list |-> <<"v4", "amf.local">>, register_ip |-> "v6", binding_ip |-> "v4",
     served_guami_list |->
        <<[plmn_id |-> P20893, amf_id |-> [region |-> 202, set |-> 1016, pointer |-> 42]],
          [plmn_id |-> P001010, amf_id |-> [region |-> 1, set |-> 0, pointer |-> 63]]>>,
     support_tai_list |-> <<[plmn_id |-> P001010, tac |-> TacUpper, nid |-> None],
                            [plmn_id |-> P20893, tac |-> TacLower, nid |-> None],
                            [plmn_id |-> P20893, tac |-> TacPrivate, nid |-> "nid"]>>,
     plmn_support_list |->
        <<[plmn_id |-> P20893, snssai_list |-> <<[sst |-> 1, sd |-> TacUpper],
                                                 [sst |-> 255, sd |-> None]>>]>>,
     support_dnn_list |-> <<"internet">>,
     service_name_list |-> <<"namf-comm", "namf-comm">>, nrf_uri |-> "url"]

MCFiles ==
    {Good,
     [Good EXCEPT !.register_ip = "amf.local"],
     [Good EXCEPT !.ngap_ip_list = <<>>],
     [Good EXCEPT !.support_tai_list = <<>>],
     [Good EXCEPT !.support_dnn_list = <<>>],
     [Good EXCEPT !.service_name_list = <<>>],
     [Good EXCEPT !.service_name_list = <<"namf-comm", "nsmf-pdusession">>],
     [Good EXCEPT !.nrf_uri = "relative"]}

\* 208/93, also with an unusual filler; 208/39; 001/010; and no digits.
AnnouncedPlmns == {<<2, 248, 57>>, <<2, 168, 57>>, <<2, 248, 147>>, <<0, 1, 1>>, <<2, 248, 202>>}

Announced == [tac : {<<0, 0, 10>>}, plmn : AnnouncedPlmns] \cup
             {[tac |-> <<10, 0, 0>>, plmn |-> <<2, 248, 57>>]}

MCRequests == {<<a>> : a \in Announced} \cup {<<a, b>> : a \in Announced, b \in Announced}
=============================================================================
