------------------------------ MODULE Schemes ------------------------------
(***************************************************************************)
(* Which arithmetic a number is checked with: the tables of company.rs and *)
(* the rules that have one scheme each.                                    *)
(***************************************************************************)
EXTENDS CompanyNumbers, PersonalNumbers, IssuedNumbers

(* member_state_check, non_eu_country_check, and the rules with one scheme each. *)
Agrees(scheme, n) ==
  CASE scheme = "AT" -> at_uid(n)      [] scheme = "BE" -> be_ondernemingsnummer(n) [] scheme = "BG" -> bg_ddn(n)
    [] scheme = "CY" -> cy_tic(n)      [] scheme = "CZ" -> cz_dic(n)    [] scheme = "DE" -> de_ustid(n)
    [] scheme = "DK" -> dk_cvr(n)      [] scheme = "EE" -> ee_kmkr(n)   [] scheme = "EL" -> el_afm(n)
    [] scheme = "ES" -> es_nif(n)      [] scheme = "FI" -> fi_alv(n)    [] scheme = "FR" -> fr_tva(n)
    [] scheme = "HR" -> hr_oib(n)      [] scheme = "HU" -> hu_anum(n)   [] scheme = "IE" -> ie_vat(n)
    [] scheme = "IT" -> it_iva(n)      [] scheme = "LT" -> lt_pvm(n)    [] scheme = "LU" -> lu_tva(n)
    [] scheme = "LV" -> lv_pvn(n)      [] scheme = "MT" -> mt_vat(n)    [] scheme = "NL" -> nl_btw(n)
    [] scheme = "PL" -> pl_nip(n)      [] scheme = "PT" -> pt_nif(n)    [] scheme = "RO" -> ro_cf(n)
    [] scheme = "SE" -> se_momsnr(n)   [] scheme = "SI" -> si_ddv(n)    [] scheme = "SK" -> sk_dph(n)
    [] scheme = "CH" -> ch_mwst(n)     [] scheme = "GB" -> gb_vat(n)    [] scheme = "GD" -> gb_department("GD", n)
    [] scheme = "HA" -> gb_department("HA", n)
    [] scheme = "ME" -> me_pib(n)      [] scheme = "MK" -> mk_edb(n)    [] scheme = "NO" -> no_mva(n)
    [] scheme = "RS" -> rs_pib(n)      [] scheme = "RU" -> ru_inn(n)    [] scheme = "TR" -> tr_vkn(n)
    [] scheme = "organisationsnummer" -> se_organisationsnummer(n)
    [] scheme = "personnummer" -> se_personnummer(n)
    [] scheme = "lei" -> company_lei(n)                [] scheme = "codice_fiscale" -> it_codice_fiscale(n)
    [] scheme = "nif_nie" -> es_nif_nie(n)             [] scheme = "curp" -> mx_curp(n)
    [] scheme = "pan" -> in_pan(n)                     [] scheme = "pesel" -> pl_pesel(n)
    [] scheme = "isin" -> isin(n)                      [] scheme = "cusip" -> cusip(n)
    [] scheme = "sedol" -> sedol(n)                    [] scheme = "iban" -> iban(n)
    [] scheme = "card" -> payment_card(n)              [] scheme = "aba" -> aba_routing(n)
    [] scheme = "imo" -> imo(n)                        [] scheme = "iso6346" -> iso6346(n)
    [] scheme = "imei" -> imei(n)                      [] scheme = "orcid" -> orcid(n)
    [] scheme = "damm" -> Damm(n)                      [] scheme = "bic" -> bic(n)
    [] scheme = "mac" -> mac(n)                        [] scheme = "cve" -> cve(n)
    [] scheme = "doi" -> doi(n)

=============================================================================
