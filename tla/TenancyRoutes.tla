---- MODULE TenancyRoutes ----
\* The statute routes of the tenancy jurisdiction (jurisdictions/nz_tenancy/routes.cpp), one record per
\* route, named by its intent. A list of trigger terms is abstracted to whether it is empty: "terms" names
\* the lists that are not, and which of them a question hits is RouteTables' choice. The text of the
\* synthetic queries (every route has one, no two are equal), of the rule cards and of the notes is left
\* out. A section is <<act, section>>.
EXTENDS TLC

RTA(S) == {<<"RTA", s>> : s \in S}
HHS(S) == {<<"HHS", s>> : s \in S}

\* The members a route leaves at their defaults (StatuteRoute).
Plain == [terms |-> {}, forced |-> {}, allow |-> {}, guidance |-> {}, caseSynth |-> FALSE, priority |-> 0,
          card |-> FALSE]

wear_and_tear == [Plain EXCEPT !.terms = {"Exclude", "Legacy"}, !.card = TRUE,
    !.forced = RTA({"s49A", "s49B", "s40", "s45", "s45A", "s138C", "s59B"}),
    !.allow = RTA({"s49A", "s49B", "s40", "s42A", "s42B", "s18AA", "s42C", "s45", "s45A", "s138C", "s59B"})]
property_change == [Plain EXCEPT !.terms = {"Exclude", "Precise", "Broad", "Context"}, !.priority = 10, !.card = TRUE,
    !.forced = RTA({"s40", "s42A", "s42B", "s11", "s49A", "s49B", "s38"}),
    !.allow = RTA({"s40", "s42A", "s42B", "s11", "s49A", "s49B", "s38"})]
repairs_tenant_not_at_fault == [Plain EXCEPT !.terms = {"Context", "Legacy"}, !.priority = 8, !.card = TRUE,
      !.guidance = {"damage-and-repairs"},
    !.forced = RTA({"s45", "s40", "s56", "s78", "s49A", "s109", "s38", "s48", "s77", "s86", "s49C", "s49D", "s54",
      "s88", "s42C", "s11", "s22B", "s42E", "s22BA"}),
    !.allow = RTA({"s45", "s40", "s56", "s78", "s49A", "s49B", "s109", "s38", "s48", "s77", "s86", "s49C", "s49D",
      "s54", "s42C", "s88", "s11", "s22B", "s42E", "s22BA"})]
repairs_maintenance == [Plain EXCEPT !.terms = {"Exclude", "Legacy"}, !.card = TRUE,
    !.forced = RTA({"s45", "s56", "s78", "s40"}),
    !.allow = RTA({"s45", "s56", "s78", "s40", "s47"})]
agreement_form == [Plain EXCEPT !.terms = {"Exclude", "Legacy"},
    !.forced = RTA({"s13A", "s13B"}),
    !.allow = RTA({"s13A", "s13B", "s13C"})]
bond == [Plain EXCEPT !.terms = {"Legacy"}, !.priority = 5, !.guidance = {"how-to-apply-for-a-bond-refund", "bonds"},
    !.forced = RTA({"s18", "s19", "s13", "s23", "s31", "s78", "s80", "s97", "s118"}),
    !.allow = RTA({"s18", "s19", "s22", "s23", "s13", "s31", "s78", "s80", "s97", "s118"})]
pet_bond == [Plain EXCEPT !.terms = {"Legacy"}, !.card = TRUE,
    !.forced = RTA({"s18", "s18A", "s18AA", "s19", "s22"}),
    !.allow = RTA({"s18", "s18A", "s18AA", "s19", "s22"})]
landlord_entry == [Plain EXCEPT !.terms = {"Exclude", "Legacy"}, !.card = TRUE,
    !.forced = RTA({"s48", "s38", "s40", "s45", "s47", "s78", "s16A", "s109", "s109A"}),
    !.allow = RTA({"s48", "s38", "s40", "s45", "s47", "s77", "s78", "s16A", "s109", "s109A"})]
sham_flatmate_agreement == [Plain EXCEPT !.terms = {"Legacy"}, !.caseSynth = TRUE,
    !.forced = RTA({"s5"}),
    !.allow = RTA({"s5"})]
termination_notice == [Plain EXCEPT !.terms = {"Legacy"}, !.card = TRUE, !.guidance = {"giving-notice-to-end-a-tenancy",
      "ending-a-tenancy"},
    !.forced = RTA({"s51", "s50", "s60A", "s31", "s136A", "s61"}),
    !.allow = RTA({"s51", "s50", "s60A", "s52", "s53", "s13C", "s136", "s31", "s136A", "s61"})]
fixed_term_sell == [Plain EXCEPT !.terms = {"Exclude", "Legacy"},
    !.forced = RTA({"s60A", "s50"}),
    !.allow = RTA({"s60A", "s50"})]
healthy_homes == [Plain EXCEPT !.terms = {"Legacy"}, !.priority = 5, !.card = TRUE,
    !.forced = RTA({"s138B", "s45"}) \cup HHS({"r8", "r14", "r21", "r23", "r26", "r28"}),
    !.allow = RTA({"s138B", "s45", "s78"}) \cup HHS({"r6", "r8", "r14", "r21", "r23", "r26", "r28"})]
healthy_homes_facilities == [Plain EXCEPT !.terms = {"Legacy"}, !.priority = 5,
    !.forced = HHS({"r21", "r23", "r24"}),
    !.allow = HHS({"r21", "r23", "r24"})]
rent_increase == [Plain EXCEPT !.terms = {"Legacy"}, !.guidance = {"rent-increases-and-reductions"},
    !.forced = RTA({"s24", "s28", "s28A"}),
    !.allow = RTA({"s24", "s28", "s28A", "s29"})]
fixed_term_rent_review == [Plain EXCEPT !.terms = {"Legacy", "All"},
    !.forced = RTA({"s13A", "s50"}),
    !.allow = RTA({"s13A", "s50"})]
tenant_early_exit == [Plain EXCEPT !.terms = {"Legacy"},
    !.forced = RTA({"s50", "s66"}),
    !.allow = RTA({"s50", "s66"})]
carpark_dispute == [Plain EXCEPT !.terms = {"Legacy"}, !.priority = 8,
    !.forced = RTA({"s45", "s13A"}),
    !.allow = RTA({"s45", "s13A"})]
family_violence_exit == [Plain EXCEPT !.terms = {"Legacy"},
    !.forced = RTA({"s56B", "s56C"}),
    !.allow = RTA({"s56B", "s56C", "s56D", "s56E"})]
quiet_enjoyment == [Plain EXCEPT !.terms = {"Legacy"}, !.priority = 5,
    !.forced = RTA({"s38"}),
    !.allow = RTA({"s38", "s48", "s47"})]
tribunal_process == [Plain EXCEPT !.terms = {"Legacy"},
    !.forced = RTA({"s77", "s85", "s86", "s78", "s22C"}),
    !.allow = RTA({"s77", "s85", "s86", "s89", "s105", "s109", "s78", "s22C"})]
water_charges == [Plain EXCEPT !.terms = {"Legacy"},
    !.forced = RTA({"s36"}),
    !.allow = RTA({"s36"})]
rent_arrears == [Plain EXCEPT !.terms = {"Legacy"}, !.guidance = {"rent-arrears-and-overdue-rent"},
    !.forced = RTA({"s55", "s27"}),
    !.allow = RTA({"s55", "s27", "s56"})]
electronic_notice_s13c == [Plain EXCEPT !.terms = {"Legacy"}, !.card = TRUE,
    !.forced = RTA({"s136", "s13C"}),
    !.allow = RTA({"s136", "s13C", "s51"})]
fixed_term_mutual_agreement == [Plain EXCEPT !.terms = {"Legacy"}, !.card = TRUE,
    !.forced = RTA({"s50", "s60A", "s61"}),
    !.allow = RTA({"s50", "s60A", "s61"})]
tribunal_appeal == [Plain EXCEPT !.terms = {"Legacy"}, !.card = TRUE,
    !.forced = RTA({"s117"}),
    !.allow = RTA({"s117"})]
healthy_homes_room_count == [Plain EXCEPT !.terms = {"Legacy"}, !.priority = 5, !.card = TRUE,
    !.forced = HHS({"r8", "r6"}),
    !.allow = HHS({"r8", "r6"})]
repair_self_help_guard == [Plain EXCEPT !.terms = {"Legacy"}, !.card = TRUE,
    !.forced = RTA({"s45", "s46"}),
    !.allow = RTA({"s45", "s46"})]
overclaim_guard == [Plain EXCEPT !.terms = {"Legacy"}, !.card = TRUE,
    !.forced = RTA({"s13A"}),
    !.allow = RTA({"s13A"})]
subletting_without_consent == [Plain EXCEPT !.terms = {"Exclude", "Legacy"}, !.card = TRUE,
    !.forced = RTA({"s44", "s43B"}),
    !.allow = RTA({"s44", "s43B", "s43"})]
tribunal_repair_order == [Plain EXCEPT !.terms = {"Exclude", "Legacy"}, !.card = TRUE,
    !.forced = RTA({"s78", "s108"}),
    !.allow = RTA({"s78", "s108", "s85", "s86"})]
repair_notice_s56 == [Plain EXCEPT !.terms = {"Exclude", "Legacy"}, !.card = TRUE,
    !.forced = RTA({"s45", "s56"}),
    !.allow = RTA({"s45", "s56"})]
lease_break_fee == [Plain EXCEPT !.terms = {"Legacy"}, !.priority = 5, !.card = TRUE,
    !.forced = RTA({"s44A", "s38"}),
    !.allow = RTA({"s44A", "s38"})]
tribunal_order_violation == [Plain EXCEPT !.terms = {"Exclude", "Legacy"}, !.priority = 12, !.card = TRUE,
    !.forced = RTA({"s78", "s95A", "s38", "s56", "s109", "s88", "s80", "s55", "s5"}),
    !.allow = RTA({"s78", "s95A", "s38", "s86", "s109", "s56", "s88", "s80", "s55", "s5"})]
repairs_landlord_not_fixing == [Plain EXCEPT !.terms = {"Exclude", "Legacy"}, !.card = TRUE,
    !.forced = RTA({"s45", "s56", "s77", "s78"}),
    !.allow = RTA({"s45", "s56", "s77", "s78"})]
exit_inspection_bond_process == [Plain EXCEPT !.terms = {"Exclude", "Legacy"}, !.card = TRUE,
    !.forced = RTA({"s22", "s40"}),
    !.allow = RTA({"s22", "s40", "s49A", "s49B", "s23"})]
pet_permission == [Plain EXCEPT !.terms = {"Exclude", "Legacy"}, !.caseSynth = TRUE, !.card = TRUE,
    !.forced = RTA({"s42E", "s42C", "s42D", "s42F", "s42G", "s18AA", "s77", "s16B"}),
    !.allow = RTA({"s42E", "s42C", "s42D", "s42F", "s42G", "s18AA", "s77", "s16B"})]
inspection_report_access == [Plain EXCEPT !.terms = {"Legacy"}, !.priority = 8, !.card = TRUE,
    !.allow = RTA({"s45"})]
bond_post_tribunal_order == [Plain EXCEPT !.terms = {"Exclude", "Legacy"}, !.card = TRUE,
    !.forced = RTA({"s22B", "s86"}),
    !.allow = RTA({"s22B", "s86"})]
painter_landlord_access == [Plain EXCEPT !.terms = {"Exclude", "Legacy"}, !.card = TRUE,
    !.forced = RTA({"s48", "s38"}),
    !.allow = RTA({"s48", "s38"})]
property_uninhabitable_rent_abatement == [Plain EXCEPT !.terms = {"Exclude", "Legacy"}, !.card = TRUE,
    !.forced = RTA({"s45", "s55"}),
    !.allow = RTA({"s45", "s55", "s56"})]
bond_release_form_signed == [Plain EXCEPT !.terms = {"Exclude", "Legacy"}, !.card = TRUE,
    !.forced = RTA({"s22"}),
    !.allow = RTA({"s22"})]
tribunal_post_filing == [Plain EXCEPT !.terms = {"Exclude", "Legacy"}, !.card = TRUE,
    !.forced = RTA({"s85", "s38", "s45"}),
    !.allow = RTA({"s85", "s38", "s45", "s86"})]
guest_damage_liability == [Plain EXCEPT !.terms = {"Exclude", "Legacy"}, !.priority = 12, !.card = TRUE,
    !.forced = RTA({"s40", "s42C", "s41"}),
    !.allow = RTA({"s40", "s18", "s19", "s49A", "s49B", "s42C", "s41"})]
neighbour_contamination == [Plain EXCEPT !.terms = {"Exclude", "Legacy"}, !.card = TRUE,
    !.forced = RTA({"s45", "s40"}),
    !.allow = RTA({"s45", "s40"})]
landlord_unresponsive_reference == [Plain EXCEPT !.terms = {"Exclude", "Legacy"}, !.card = TRUE]
post_inspection_followup == [Plain EXCEPT !.terms = {"Exclude", "Legacy"}, !.card = TRUE,
    !.forced = RTA({"s48", "s40"}),
    !.allow = RTA({"s48", "s40", "s45"})]
flooding_uninhabitable == [Plain EXCEPT !.terms = {"Exclude", "Legacy"}, !.priority = 6, !.card = TRUE,
    !.forced = RTA({"s55", "s45", "s59", "s77", "s78", "s31", "s16"}),
    !.allow = RTA({"s55", "s45", "s38", "s86", "s59", "s78", "s77", "s31", "s16"})]
moveout_rent_calculation == [Plain EXCEPT !.terms = {"Exclude", "Legacy"}, !.card = TRUE,
    !.forced = RTA({"s27", "s23"}),
    !.allow = RTA({"s27", "s22", "s23", "s40"})]
owner_occupation_notice == [Plain EXCEPT !.terms = {"Exclude", "Legacy"}, !.card = TRUE,
    !.forced = RTA({"s51", "s52", "s45"}),
    !.allow = RTA({"s51", "s52", "s45", "s40", "s54", "s38"})]
key_return_pm_closed == [Plain EXCEPT !.terms = {"Exclude", "Legacy"}, !.card = TRUE,
    !.forced = RTA({"s40"}),
    !.allow = RTA({"s40", "s51", "s27", "s22"})]
meth_contamination_defence == [Plain EXCEPT !.terms = {"Exclude", "Legacy"}, !.card = TRUE,
    !.forced = RTA({"s49A", "s49B", "s45", "s40", "s97"}),
    !.allow = RTA({"s49A", "s49B", "s45", "s45A", "s40", "s97"})]
property_sale_viewings == [Plain EXCEPT !.terms = {"Exclude", "Legacy"}, !.card = TRUE,
    !.forced = RTA({"s48", "s38", "s47"}),
    !.allow = RTA({"s48", "s38", "s40", "s45", "s47"})]
listing_photos_misleading == [Plain EXCEPT !.terms = {"Exclude", "Legacy"}, !.card = TRUE]
tribunal_application_timing == [Plain EXCEPT !.terms = {"Exclude", "Legacy"}, !.card = TRUE,
    !.forced = RTA({"s109", "s77"}),
    !.allow = RTA({"s109", "s77", "s86"})]
tribunal_mediation_enforcement == [Plain EXCEPT !.terms = {"Exclude", "Legacy"}, !.priority = 10, !.card = TRUE,
    !.forced = RTA({"s95A", "s38"}),
    !.allow = RTA({"s95A", "s38", "s5", "s45", "s77", "s40"})]
bond_agreement_sequence == [Plain EXCEPT !.terms = {"Exclude", "Legacy"}, !.priority = 12, !.card = TRUE]
accidental_damage_insurance_excess == [Plain EXCEPT !.terms = {"Exclude", "Legacy"}, !.card = TRUE,
    !.forced = RTA({"s49B", "s49A"}),
    !.allow = RTA({"s49B", "s49A"})]

\* ROUTES, in definition order.
TenancyTable == <<wear_and_tear, property_change, repairs_tenant_not_at_fault, repairs_maintenance, agreement_form,
  bond, pet_bond, landlord_entry, sham_flatmate_agreement, termination_notice, fixed_term_sell, healthy_homes,
  healthy_homes_facilities, rent_increase, fixed_term_rent_review, tenant_early_exit, carpark_dispute,
  family_violence_exit, quiet_enjoyment, tribunal_process, water_charges, rent_arrears, electronic_notice_s13c,
  fixed_term_mutual_agreement, tribunal_appeal, healthy_homes_room_count, repair_self_help_guard, overclaim_guard,
  subletting_without_consent, tribunal_repair_order, repair_notice_s56, lease_break_fee, tribunal_order_violation,
  repairs_landlord_not_fixing, exit_inspection_bond_process, pet_permission, inspection_report_access,
  bond_post_tribunal_order, painter_landlord_access, property_uninhabitable_rent_abatement, bond_release_form_signed,
  tribunal_post_filing, guest_damage_liability, neighbour_contamination, landlord_unresponsive_reference,
  post_inspection_followup, flooding_uninhabitable, moveout_rent_calculation, owner_occupation_notice,
  key_return_pm_closed, meth_contamination_defence, property_sale_viewings, listing_photos_misleading,
  tribunal_application_timing, tribunal_mediation_enforcement, bond_agreement_sequence,
  accidental_damage_insurance_excess>>
==============================================================================
